---------------------------- MODULE Spec2Model ----------------------------
(***************************************************************************)
(* Model of the dictionary lookup service of the Mandarin vocabulary       *)
(* builder backend (backend/services/dictionary_handler.py):               *)
(*   - the build of the CC-CEDICT index (_load_dictionary, _parse_line,    *)
(*     _index_entry, _calculate_frequency_scores),                         *)
(*   - the query path (lookup, _exact_lookup, _sort_by_frequency),         *)
(*   - the lazily loaded translation backend (_get_translator,             *)
(*     _unload_translation_model, _translate_phrase, _do_inference).       *)
(*                                                                         *)
(* Text is a sequence of code points; a romanization is a sequence of      *)
(* syllables (the source joins them with spaces).  A line of the file is   *)
(* a record of what the loader looks at in it.  Entries are Python         *)
(* dicts shared between the two indexes, so the model keeps them in a heap *)
(* (entries) and the indexes hold positions in that heap.                  *)
(***************************************************************************)
EXTENDS Integers, Sequences, FiniteSets, TLC

VARIABLES
    \* ---- DictionaryHandler: index state -------------------------------
    lexicon,            \* the lines of the lexicon file, in file order
    line_no,            \* number of lines _load_dictionary has consumed
    phase,              \* "none": _dictionary_service is None and no
                        \* __init__ runs; "loading": inside __init__;
                        \* "ready": the instance is built; "failed"
    entries,            \* heap of entry dicts, in order of indexing
    simplified_index,   \* simplified headword -> list of heap positions
    traditional_index,  \* traditional headword -> list of heap positions
    compound_count,     \* <<first character, romanization>> -> count
    \* ---- DictionaryHandler: translation backend -----------------------
    translator,         \* "None" | "Translator"
    tokenizer,          \* "None" | "Tokenizer"
    unload_timer,       \* NoTimer, or the timer spawn_after returned
    loading_lock,       \* BOOLEAN
    \* ---- eventlet: timers of the hub and the running eviction callback -
    timer_left,         \* pending timer -> time left before it fires
    unload_pc,          \* position of the running _unload_translation_model
    since_reset,        \* time since the eviction timer was last (re)set
    \* ---- one lookup call per caller ------------------------------------
    pc,                 \* caller -> position in lookup / _get_translator
    query,              \* caller -> the chinese_word of its call
    loc_translator,     \* caller -> translator of the pair it obtained
    loc_tokenizer,      \* caller -> tokenizer of the pair it obtained
    translation,        \* caller -> what _translate_phrase returned to lookup
    result,             \* caller -> the dict lookup returned
    calls,              \* caller -> translator invocations made by its call
    loads,              \* caller -> backend loads started by its call
    \* ---- api/audio_stream: the socket events of the audio sessions -----
    session_chunks,     \* session id -> list of the chunks accumulated
    utterance,          \* the chunks the client has sent since it last
                        \* began or ended an utterance
    sent,               \* number of chunks the client has sent
    speak,              \* end_speak event -> its handler: position,
                        \* session_id, combined_webm, the utterance ended
    transcript_ready,   \* end_speak event -> transcript_ready messages
                        \* its handler has emitted to the room
    \* ---- api/chat and api/session: the HTTP handlers of a session ------
    transcripts,        \* session id -> list of the turns recorded
    conversation_histories, \* session id -> list of the messages
    chats,              \* chat request -> its handler: position, user_input
    ending,             \* the end-session request: position, status
    analysed,           \* the lists analyze_session has been called with
    turns               \* number of user turns chat has recorded

indexVars   == <<lexicon, line_no, phase, entries, simplified_index,
                 traditional_index, compound_count>>
backendVars == <<translator, tokenizer, unload_timer, loading_lock>>
timerVars   == <<timer_left, unload_pc, since_reset>>
callerVars  == <<pc, query, loc_translator, loc_tokenizer, translation, result,
                 calls, loads>>
serviceVars == <<indexVars, backendVars, timerVars, callerVars>>
audioVars   == <<session_chunks, utterance, sent, speak, transcript_ready>>
chatVars    == <<transcripts, conversation_histories, chats, ending, analysed,
                 turns>>
webVars     == <<audioVars, chatVars>>
vars        == <<serviceVars, webVars>>

(***************************************************************************)
(* Bounds of the model.                                                    *)
(***************************************************************************)
MaxLines   == 3     \* lines of an enumerated lexicon file
MaxText    == 4     \* characters of an enumerated decoded translation
NumCallers == 2     \* concurrent lookup calls
MaxTimers  == 2     \* eviction timers alive at once in the hub
TicksPerWindow == 1 \* clock steps that make up one idle window
MaxChunks  == 2     \* audio chunks a client sends
MaxSpeaks  == 2     \* end_speak events a client sends
MaxTurns   == 2     \* user turns recorded by chat
NumChats   == 2     \* concurrent chat requests

(***************************************************************************)
(* Text.                                                                   *)
(***************************************************************************)
CJK_FIRST == 19968      \* U+4E00
CJK_LAST  == 40959      \* U+9FFF

\* A faulty _is_chinese, its range one code point too wide at each end;
\* C6 does not hold of it.
is_chinese_wide(text) ==
    \E i \in 1..Len(text) : text[i] >= CJK_FIRST - 1 /\ text[i] <= CJK_LAST + 1

\* re.search(r'[一-鿿]', text)
_is_chinese(text) ==
    \E i \in 1..Len(text) : text[i] >= CJK_FIRST /\ text[i] <= CJK_LAST

(***************************************************************************)
(* Entries and the index.                                                  *)
(***************************************************************************)
\* The dict _parse_line builds from the fields of a well-formed line with
\* no "CL:" meaning (classifier None is written <<>>: a classifier list is
\* never empty).
Entry(traditional, simplified, pinyin, definitions) ==
    [is_generated |-> FALSE,
     simplified   |-> simplified,
     traditional  |-> traditional,
     pinyin       |-> pinyin,
     definitions  |-> definitions,
     classifier   |-> <<>>,
     char_count   |-> Len(simplified),
     is_compound  |-> Len(simplified) > 1,
     message      |-> "Phrase found in dictionary"]

\* A line of the file, by what _load_dictionary and _parse_line look at:
\* lead is its first character when that is "#" or "%" and "" otherwise,
\* parts the whitespace-separated tokens before the first "[", open and
\* close whether it holds a "[" and a "]", pinyin the syllables between
\* them and definitions the slash-separated fragments after them
\* (meanings_raw.split('/'), line 151).
RawLine(lead, parts, open, close, pinyin, definitions) ==
    [lead |-> lead, parts |-> parts, open |-> open, close |-> close,
     pinyin |-> pinyin, definitions |-> definitions]

\* The well-formed line "TRADITIONAL SIMPLIFIED [pinyin] /definitions/".
Line(traditional, simplified, pinyin, definitions) ==
    RawLine("", <<traditional, simplified>>, TRUE, TRUE, pinyin, definitions)

\* not line.strip()
Blank(line) ==
    /\ line.lead = "" /\ line.parts = <<>> /\ ~line.open /\ ~line.close
    /\ line.pinyin = <<>> /\ line.definitions = <<>>

\* The test of line 117.
Skipped(line) == line.lead = "#" \/ line.lead = "%" \/ Blank(line)

\* None as returned by _parse_line
NoEntry == [none |-> TRUE]

\* An exception that leaves _parse_line.
Raised == [exception |-> "IndexError"]

\* re.sub(r'(?<=[a-zA-ZüÜ])5\b', '', pinyin), on the syllables of the model:
\* the neutral-tone mark is dropped.
_normalize_pinyin(pinyin) ==
    [i \in DOMAIN pinyin |-> IF pinyin[i] = "da5" THEN "da" ELSE pinyin[i]]

\* meaning.strip() (line 152), on the fragments of the model.
Strip(meaning) ==
    CASE meaning = " "        -> ""
      [] meaning = " to hit " -> "to hit"
      [] OTHER                -> meaning

\* meaning.startswith("CL:") (line 157), on the fragments of the model;
\* <500B> stands for the character U+500B.
StartsWithCL(meaning) ==
    meaning \in {"CL:", "CL:<500B>|<4E2A>[ge4]", "CL:<96BB>|<53EA>[zhi1]"}

\* The list built from re.findall on what follows "CL:" (lines 159-167):
\* the pattern needs a "[" right after the characters, so of
\* "traditional|simplified[pinyin]" it takes "simplified[pinyin]".
ClassifierGroups(meaning) ==
    CASE meaning = "CL:<500B>|<4E2A>[ge4]"  -> <<"<4E2A>[ge4]">>
      [] meaning = "CL:<96BB>|<53EA>[zhi1]" -> <<"<53EA>[zhi1]">>
      [] OTHER                               -> <<>>

\* The loop of lines 151-170 over the fragments: definitions collects the
\* stripped fragments that are neither empty nor classifiers; classifier is
\* the list of the last "CL:" fragment that has groups (<<>> is None).
RECURSIVE ParseMeanings(_, _, _)
ParseMeanings(fragments, definitions, classifier) ==
    IF fragments = <<>>
    THEN [definitions |-> definitions, classifier |-> classifier]
    ELSE LET meaning == Strip(Head(fragments))
         IN  IF meaning = ""
             THEN ParseMeanings(Tail(fragments), definitions, classifier)
             ELSE IF StartsWithCL(meaning)
             THEN ParseMeanings(Tail(fragments), definitions,
                                IF ClassifierGroups(meaning) # <<>>
                                THEN ClassifierGroups(meaning)
                                ELSE classifier)
             ELSE ParseMeanings(Tail(fragments),
                                Append(definitions, meaning), classifier)

\* A faulty _parse_line with neither the two early returns nor the except
\* clause: a line short of tokens raises, a line short of a bracket is
\* parsed; C20 does not hold of it.
parse_line_unchecked(line) ==
    IF Len(line.parts) < 2 THEN Raised
    ELSE Entry(line.parts[1], line.parts[2],
               _normalize_pinyin(line.pinyin), line.definitions)

\* _parse_line: None for a line with no "[" or no "]" (lines 134-135) or
\* with fewer than two tokens before the "[" (lines 138-139); nothing in
\* the rest of the try block raises for the lines that pass, and the
\* except clause (lines 189-190) would turn an exception into None.
_parse_line(line) ==
    IF ~line.open \/ ~line.close THEN NoEntry
    ELSE IF Len(line.parts) < 2 THEN NoEntry
    ELSE LET parsed == ParseMeanings(line.definitions, <<>>, <<>>)
         IN  [Entry(line.parts[1], line.parts[2],
                    _normalize_pinyin(line.pinyin), parsed.definitions)
                EXCEPT !.classifier = parsed.classifier]

\* entry.get("frequency_score", 0)
FrequencyScore(e) ==
    IF "frequency_score" \in DOMAIN e THEN e.frequency_score ELSE 0

\* index[key].append(id), creating the list when the key is new
ListAppend(index, key, id) ==
    IF key \in DOMAIN index
    THEN [index EXCEPT ![key] = Append(@, id)]
    ELSE (key :> <<id>>) @@ index

\* compound_count[key] += 1, starting from 0 when the key is new
CountUp(count, key) ==
    IF key \in DOMAIN count
    THEN [count EXCEPT ![key] = @ + 1]
    ELSE (key :> 1) @@ count

\* The state of the index as one value: ix.entries, ix.simplified_index,
\* ix.traditional_index, ix.compound_count.
EmptyIndex ==
    [entries |-> <<>>, simplified_index |-> <<>>,
     traditional_index |-> <<>>, compound_count |-> <<>>]

\* A faulty _index_entry that lists every entry in the traditional index,
\* whether or not its two forms differ; C18 does not hold of it.
index_entry_both_always(ix, entry) ==
    LET id         == Len(ix.entries) + 1
        simplified == entry.simplified
        traditional == entry.traditional
        key        == <<SubSeq(simplified, 1, 1), entry.pinyin>>
    IN  [entries           |-> Append(ix.entries, entry),
         simplified_index  |-> ListAppend(ix.simplified_index, simplified, id),
         traditional_index |-> ListAppend(ix.traditional_index, traditional, id),
         compound_count    |-> IF entry.is_compound
                               THEN CountUp(ix.compound_count, key)
                               ELSE ix.compound_count]

\* _index_entry: the compound is counted under (its first character, its
\* own whole romanization).
_index_entry(ix, entry) ==
    LET id         == Len(ix.entries) + 1
        simplified == entry.simplified
        traditional == entry.traditional
        pinyin     == entry.pinyin
        base_char  == SubSeq(simplified, 1, 1)
        key        == <<base_char, pinyin>>
    IN  [entries           |-> Append(ix.entries, entry),
         simplified_index  |-> ListAppend(ix.simplified_index, simplified, id),
         traditional_index |-> IF traditional # simplified
                               THEN ListAppend(ix.traditional_index, traditional, id)
                               ELSE ix.traditional_index,
         compound_count    |-> IF entry.is_compound
                               THEN CountUp(ix.compound_count, key)
                               ELSE ix.compound_count]

\* _calculate_frequency_scores: every entry listed under a one-character
\* simplified key with more than one entry gets
\* compound_count.get((word, pinyin), 0); the other entries are untouched.
_calculate_frequency_scores(ix) ==
    [ix EXCEPT !.entries =
        [i \in DOMAIN ix.entries |->
            LET entry == ix.entries[i]
                word  == entry.simplified
                key   == <<word, entry.pinyin>>
            IN  IF Len(ix.simplified_index[word]) <= 1 \/ Len(word) > 1
                THEN entry
                ELSE [frequency_score |->
                         IF key \in DOMAIN ix.compound_count
                         THEN ix.compound_count[key] ELSE 0] @@ entry]]

\* The body of the loop of _load_dictionary (lines 117-123) for a line
\* whose parse raises nothing: a skipped line and a line parsed to None
\* leave the index as it is.
LoadOne(ix, line) ==
    IF Skipped(line) THEN ix
    ELSE LET entry == _parse_line(line)
         IN  IF entry = NoEntry THEN ix ELSE _index_entry(ix, entry)

\* The loop of _load_dictionary over a whole file, then the scores:
\* DictionaryHandler.__init__.
RECURSIVE IndexAll(_, _)
IndexAll(ix, file) ==
    IF file = <<>> THEN ix
    ELSE IndexAll(LoadOne(ix, Head(file)), Tail(file))

Construct(file) == _calculate_frequency_scores(IndexAll(EmptyIndex, file))

\* The index variables as one value.
Index ==
    [entries |-> entries, simplified_index |-> simplified_index,
     traditional_index |-> traditional_index, compound_count |-> compound_count]

(***************************************************************************)
(* Exact lookup and ranking.                                               *)
(***************************************************************************)
\* None as returned by _exact_lookup; heap positions start at 1
None == <<0>>

\* "if entries:" is false for None and for an empty list
Truthy(list) == list # None /\ list # <<>>

\* A faulty _exact_lookup that forgets the traditional index; C7 does not
\* hold of it.
exact_lookup_simplified_only(word) ==
    IF word \in DOMAIN simplified_index THEN simplified_index[word]
    ELSE None

\* A faulty _exact_lookup that tries the traditional index first; C19 does
\* not hold of it.
exact_lookup_traditional_first(word) ==
    IF word \in DOMAIN traditional_index THEN traditional_index[word]
    ELSE IF word \in DOMAIN simplified_index THEN simplified_index[word]
    ELSE None

_exact_lookup(word) ==
    IF word \in DOMAIN simplified_index THEN simplified_index[word]
    ELSE IF word \in DOMAIN traditional_index THEN traditional_index[word]
    ELSE None

\* The entry dicts a list of heap positions refers to.
Deref(ids) == [i \in 1..Len(ids) |-> entries[ids[i]]]

\* A faulty SortCopy that takes the frequency score whatever the length of
\* the word; C15 does not hold of it.
sort_copy_always_scored(entry, word) ==
    [sort_score |-> FrequencyScore(entry)] @@ entry

\* entry.copy() with its sort_score (lines 299-306)
SortCopy(entry, word) ==
    [sort_score |-> IF Len(word) = 1 THEN FrequencyScore(entry) ELSE 0] @@ entry

\* A faulty sort that puts an element before the elements of equal key; C14
\* does not hold of it.
RECURSIVE insert_descending_unstable(_, _)
insert_descending_unstable(sorted, e) ==
    IF sorted = <<>> THEN <<e>>
    ELSE IF Head(sorted).sort_score > e.sort_score
         THEN <<Head(sorted)>> \o insert_descending_unstable(Tail(sorted), e)
         ELSE <<e>> \o sorted

\* list.sort(key=sort_score, reverse=True) is stable: an element goes after
\* every element whose key is at least its own.
RECURSIVE InsertDescending(_, _)
InsertDescending(sorted, e) ==
    IF sorted = <<>> THEN <<e>>
    ELSE IF Head(sorted).sort_score >= e.sort_score
         THEN <<Head(sorted)>> \o InsertDescending(Tail(sorted), e)
         ELSE <<e>> \o sorted

RECURSIVE SortDescending(_)
SortDescending(list) ==
    IF list = <<>> THEN <<>>
    ELSE InsertDescending(SortDescending(SubSeq(list, 1, Len(list) - 1)),
                          list[Len(list)])

Labelled(entry, label) == [confidence |-> label] @@ entry

\* A faulty _sort_by_frequency that labels without sorting; C5 does not
\* hold of it.
sort_by_frequency_unsorted(list, word) ==
    LET sorted_entries == [i \in 1..Len(list) |-> SortCopy(list[i], word)]
    IN  IF Len(sorted_entries) > 1
        THEN IF sorted_entries[1].sort_score > 0
             THEN [i \in 1..Len(sorted_entries) |->
                     Labelled(sorted_entries[i],
                              IF i = 1 THEN "most common" ELSE "less common")]
             ELSE [i \in 1..Len(sorted_entries) |->
                     Labelled(sorted_entries[i], "see all meanings")]
        ELSE <<Labelled(sorted_entries[1], "only meaning")>>

\* A faulty _sort_by_frequency that labels a lone entry by its score; C16
\* does not hold of it.
sort_by_frequency_lone_scored(list, word) ==
    LET sorted_entries ==
            SortDescending([i \in 1..Len(list) |-> SortCopy(list[i], word)])
    IN  IF sorted_entries[1].sort_score > 0
        THEN [i \in 1..Len(sorted_entries) |->
                Labelled(sorted_entries[i],
                         IF i = 1 THEN "most common" ELSE "less common")]
        ELSE IF Len(sorted_entries) > 1
        THEN [i \in 1..Len(sorted_entries) |->
                Labelled(sorted_entries[i], "see all meanings")]
        ELSE <<Labelled(sorted_entries[1], "only meaning")>>

\* _sort_by_frequency(entries, word); never called with an empty list
_sort_by_frequency(list, word) ==
    LET sorted_entries ==
            SortDescending([i \in 1..Len(list) |-> SortCopy(list[i], word)])
    IN  IF Len(sorted_entries) > 1
        THEN IF sorted_entries[1].sort_score > 0
             THEN [i \in 1..Len(sorted_entries) |->
                     Labelled(sorted_entries[i],
                              IF i = 1 THEN "most common" ELSE "less common")]
             ELSE [i \in 1..Len(sorted_entries) |->
                     Labelled(sorted_entries[i], "see all meanings")]
        ELSE <<Labelled(sorted_entries[1], "only meaning")>>

_not_found(word) ==
    [found |-> FALSE, query |-> word, entries |-> <<>>, count |-> 0,
     message |-> "Term not found"]

\* A faulty _sort_by_frequency that writes sort_score and confidence to the
\* indexed dicts themselves instead of copies; C13 does not hold of it.
sort_writes_in_place(ids, word) ==
    LET labelled == _sort_by_frequency(Deref(ids), word)
        Copy(id) == CHOOSE k \in 1..Len(labelled) :
                        [f \in DOMAIN entries[id] |-> labelled[k][f]] = entries[id]
    IN  [id \in DOMAIN entries |->
            IF \E i \in 1..Len(ids) : ids[i] = id
            THEN labelled[Copy(id)] ELSE entries[id]]

\* The indexed dicts as _sort_by_frequency leaves them: every write of
\* lines 304-326 goes to a dict made by entry.copy() (line 299), a new object
\* that is in no index, so the indexed dicts keep their items.
SortWrites(ids, word) ==
    LET copies == [i \in 1..Len(ids) |-> entries[ids[i]]]
        store  == entries \o _sort_by_frequency(copies, word)
    IN  SubSeq(store, 1, Len(entries))

\* The dict lookup returns when the exact lookup is non-empty (lines 257-264)
Found(word, ids) ==
    LET sorted_entries == _sort_by_frequency(Deref(ids), word)
    IN  [found |-> TRUE, query |-> word, entries |-> sorted_entries,
         count |-> Len(sorted_entries)]

(***************************************************************************)
(* Lexicon files and queries of the model.                                 *)
(* 25171 is U+6253, 30005 U+7535, 38651 U+96FB, 35805 U+8BDD, 20799 U+513F,*)
(* 104 is "h" (CC-CEDICT has headwords written in Latin letters, too);     *)
(* 19967, 19968, 40959, 40960 are the code points around the two ends of   *)
(* the range _is_chinese tests.                                            *)
(***************************************************************************)
\* A compound on U+6253 that carries the given reading for U+6253.
Compound(second, reading) ==
    Line(<<25171, second>>, <<25171, second>>, <<reading, "x">>, <<"compound">>)

EntryUniverse ==
    { Line(<<25171>>, <<25171>>, <<"da3">>, <<"to hit">>),
      Line(<<25171>>, <<25171>>, <<"da2">>, <<"dozen">>),
      Line(<<25171, 38651>>, <<25171, 30005>>, <<"da3", "dian4">>, <<"to phone">>),
      \* a compound whose whole romanization is one syllable
      Line(<<25171, 20799>>, <<25171, 20799>>, <<"da3">>, <<"hit (erhua)">>),
      \* a two-character traditional form of a one-character headword
      Line(<<25171, 25171>>, <<25171>>, <<"da3">>, <<"to beat">>),
      Line(<<25171, 25171>>, <<25171>>, <<"da2">>, <<"twelve">>) }

\* Two readings of U+6253; five compounds carry da3 and one carries da2.
ScenarioCompounds ==
    << Compound(30005, "da3"), Compound(35805, "da3"), Compound(20799, "da3"),
       Compound(38651, "da3"), Compound(19968, "da3"), Compound(40959, "da2") >>

ScenarioFiles ==
    { <<Line(<<25171>>, <<25171>>, <<"da3">>, <<"to hit">>),
        Line(<<25171>>, <<25171>>, <<"da2">>, <<"dozen">>)>> \o ScenarioCompounds,
      ScenarioCompounds \o
      <<Line(<<25171>>, <<25171>>, <<"da2">>, <<"dozen">>),
        Line(<<25171>>, <<25171>>, <<"da3">>, <<"to hit">>)>> }

\* Three entries of U+6253, two of them of equal score above or below the
\* third (the one-syllable compound gives da3 the score 1).
TieFiles ==
    LET hit   == Line(<<25171>>, <<25171>>, <<"da3">>, <<"to hit">>)
        beat  == Line(<<25171, 25171>>, <<25171>>, <<"da3">>, <<"to beat">>)
        dozen == Line(<<25171>>, <<25171>>, <<"da2">>, <<"dozen">>)
        twelve == Line(<<25171, 25171>>, <<25171>>, <<"da2">>, <<"twelve">>)
        erhua == Line(<<25171, 20799>>, <<25171, 20799>>, <<"da3">>, <<"hit (erhua)">>)
    IN  { <<dozen, hit, beat, erhua>>, <<beat, dozen, hit, erhua>>,
          <<twelve, hit, dozen, erhua>>, <<erhua, dozen, beat, twelve>> }

\* U+96FB is the traditional form of one of two entries of U+7535, which the
\* one-syllable compound gives the score 1: the only entry of its
\* traditional headword, with a score.
LoneFiles ==
    { << Line(<<38651>>, <<30005>>, <<"dian4">>, <<"electricity">>),
         Line(<<30005>>, <<30005>>, <<"dian3">>, <<"other reading">>),
         Line(<<30005, 20799>>, <<30005, 20799>>, <<"dian4">>, <<"compound">>) >> }

\* U+96FB is the traditional form of an entry of U+7535 and the simplified
\* headword of another entry: a key of both indexes, with different lists.
BothFiles ==
    { << Line(<<38651>>, <<30005>>, <<"dian4">>, <<"electricity">>),
         Line(<<38651>>, <<38651>>, <<"dian4">>, <<"variant">>) >> }

\* Lines of every kind the loop tells apart: comments that would parse, a
\* blank line, a line with no "[", with no "]", with one token before the
\* "[", and well-formed lines, one of them of neutral tone.
LoadUniverse ==
    { RawLine("#", << <<35>>, <<25171>>, <<25171>> >>, TRUE, TRUE,
              <<"da3">>, <<"in a comment">>),
      RawLine("%", << <<37>>, <<25171>>, <<25171>> >>, TRUE, TRUE,
              <<"da3">>, <<"in a comment">>),
      RawLine("", <<>>, FALSE, FALSE, <<>>, <<>>),
      RawLine("", << <<25171>>, <<25171>> >>, FALSE, TRUE,
              <<"da3">>, <<"no opening bracket">>),
      RawLine("", << <<25171>>, <<25171>> >>, TRUE, FALSE,
              <<"da3">>, <<"no closing bracket">>),
      RawLine("", << <<25171>> >>, TRUE, TRUE, <<"da3">>, <<"one token">>),
      Line(<<25171>>, <<25171>>, <<"da3">>, <<"to hit">>),
      Line(<<25171>>, <<25171>>, <<"da5">>, <<"neutral tone">>),
      Line(<<25171, 38651>>, <<25171, 30005>>, <<"da3", "dian4">>, <<"to phone">>) }

LoadFiles == UNION { [1..n -> LoadUniverse] : n \in 0..MaxLines }

\* Files of one line whose fragments hold a gloss twice, an empty and a
\* blank fragment, classifier fragments with and without groups.
GlossFiles ==
    { <<Line(<<25171>>, <<25171>>, <<"da3">>, fragments)>> :
        fragments \in
          { <<"to hit", "to beat", "to hit">>,
            <<" to hit ", "to hit">>,
            <<"to hit", "", " ", "CL:<500B>|<4E2A>[ge4]", "to beat">>,
            <<"CL:", "dozen">>,
            <<"CL:<500B>|<4E2A>[ge4]", "dozen", "CL:<96BB>|<53EA>[zhi1]">> } }

Files ==
    UNION { [1..n -> EntryUniverse] : n \in 0..MaxLines }
        \cup ScenarioFiles \cup TieFiles \cup LoneFiles \cup BothFiles
        \cup LoadFiles \cup GlossFiles

\* The lexicon the running service was constructed from.
ServiceFile ==
    << Line(<<25171>>, <<25171>>, <<"da3">>, <<"to hit">>),
       Line(<<25171>>, <<25171>>, <<"da2">>, <<"dozen">>),
       Line(<<25171, 38651>>, <<25171, 30005>>, <<"da3", "dian4">>, <<"to phone">>),
       Line(<<25171, 20799>>, <<25171, 20799>>, <<"da3">>, <<"hit (erhua)">>),
       \* a headword with no character in the range
       Line(<<104>>, <<104>>, <<"h">>, <<"letter h">>) >>

Queries ==
    { <<104>>, <<19967, 40960>>,                   \* no character in range
      <<25171>>, <<25171, 30005>>, <<25171, 38651>>, <<25171, 25171>>,
      <<38651>>, <<25171, 20799>>,
      <<19968>>, <<104, 40959>> }                  \* in range, in no lexicon

\* The queries sent to the running service.
ServiceQueries ==
    { <<104>>, <<19967, 40960>>, <<25171>>, <<25171, 38651>>, <<104, 40959>> }

\* pypinyin.pinyin(word, style=Style.TONE3): one reading per character
Reading(ch) ==
    CASE ch = 25171 -> "da3"
      [] ch = 19968 -> "yi1"
      [] ch = 30005 -> "dian4"
      [] OTHER      -> "?"

Pinyin(word) == [i \in 1..Len(word) |-> Reading(word[i])]

\* What tokenizer.decode may return (line 87) in the running service:
\* "hi." and "(h)".
Decoded == { <<104, 105, 46>>, <<40, 104, 41>> }

\* The decoded translations of up to MaxText characters over
\* "a", " ", ",", ".", "(", ";", "!" and "?".
Texts == UNION { [1..n -> {97, 32, 44, 46, 40, 59, 33, 63}] : n \in 0..MaxText }

\* The whitespace str.strip() and str.split() remove, among the characters
\* of the model: the space.
Whitespace == {32}

\* The characters of the strip of line 101: ".", "。", "!", "！", "," and " ".
StripSet == {46, 12290, 33, 65281, 44, 32}

\* text.split(sep)[0]
Before(text, sep) ==
    IF \E i \in DOMAIN text : text[i] = sep
    THEN SubSeq(text, 1, (CHOOSE i \in DOMAIN text :
                            /\ text[i] = sep
                            /\ \A j \in 1..(i - 1) : text[j] # sep) - 1)
    ELSE text

\* text.strip(chars)
StripChars(text, chars) ==
    LET kept == {i \in DOMAIN text : text[i] \notin chars}
    IN  IF kept = {} THEN <<>>
        ELSE SubSeq(text, CHOOSE i \in kept : \A j \in kept : i <= j,
                          CHOOSE i \in kept : \A j \in kept : i >= j)

\* len(text.split())
WordCount(text) ==
    Cardinality({i \in DOMAIN text :
                    /\ text[i] \notin Whitespace
                    /\ i = 1 \/ text[i - 1] \in Whitespace})

\* Lines 90-102 of _do_inference: the cleanup of the decoded translation.
Cleanup(decoded) ==
    LET cut1       == IF \E i \in DOMAIN decoded : decoded[i] = 40
                      THEN Before(decoded, 40) ELSE decoded
        cut2       == Before(Before(Before(cut1, 46), 33), 59)
        first_part == StripChars(Before(cut2, 44), Whitespace)
        cut3       == IF (\E i \in DOMAIN cut2 : cut2[i] = 44)
                            /\ WordCount(first_part) >= 2
                      THEN first_part ELSE cut2
    IN  StripChars(cut3, StripSet)

(***************************************************************************)
(* Callers, timers and time.                                               *)
(***************************************************************************)
Callers == 1..NumCallers

IdleWindow == 300

\* self.unload_timer = None
NoTimer == 0

\* Timer objects; a spawn always finds one that is neither pending nor
\* referenced by unload_timer.
TimerIds == 1..(MaxTimers + 1)

TickLength == IdleWindow \div TicksPerWindow

\* No dict has been returned and nothing has been raised.
NoResult == [exception |-> "none"]

\* Positions of a call inside _do_inference (run by a tpool worker thread).
InGateway == {"L28", "L29", "L31", "L42", "L43", "L47", "L50", "L52", "L52b", "L71"}

Pending == DOMAIN timer_left

(***************************************************************************)
(* DictionaryHandler.__init__: the build of the index.                     *)
(***************************************************************************)
SetIndex(ix) ==
    /\ entries' = ix.entries
    /\ simplified_index' = ix.simplified_index
    /\ traditional_index' = ix.traditional_index
    /\ compound_count' = ix.compound_count

\* A faulty build that computes the scores after every line; C17 does not
\* hold of it.
load_line_scoring ==
    /\ phase = "loading"
    /\ line_no < Len(lexicon)
    /\ SetIndex(_calculate_frequency_scores(
                    LoadOne(Index, lexicon[line_no + 1])))
    /\ line_no' = line_no + 1
    /\ UNCHANGED <<lexicon, phase, backendVars, timerVars, callerVars>>
    /\ UNCHANGED webVars

\* A faulty build whose lists have no fixed order (an index kept in
\* containers iterated in hash order): after a line the lists of the
\* simplified index are in either order; C22 does not hold of it.
load_line_unordered ==
    /\ phase = "loading"
    /\ line_no < Len(lexicon)
    /\ \E flip \in BOOLEAN :
          LET ix == LoadOne(Index, lexicon[line_no + 1])
              reversed(list) == [i \in DOMAIN list |-> list[Len(list) + 1 - i]]
          IN  SetIndex(IF flip
                       THEN [ix EXCEPT !.simplified_index =
                                [k \in DOMAIN @ |-> reversed(@[k])]]
                       ELSE ix)
    /\ line_no' = line_no + 1
    /\ UNCHANGED <<lexicon, phase, backendVars, timerVars, callerVars>>
    /\ UNCHANGED webVars

\* One iteration of the loop of _load_dictionary (lines 116-123). An
\* exception of _parse_line would leave _load_dictionary and __init__,
\* which handle none: the construction fails.
LoadLine ==
    /\ phase = "loading"
    /\ line_no < Len(lexicon)
    /\ LET line == lexicon[line_no + 1]
       IN  IF ~Skipped(line) /\ _parse_line(line) = Raised
           THEN /\ phase' = "failed"
                /\ UNCHANGED <<line_no, entries, simplified_index,
                               traditional_index, compound_count>>
           ELSE /\ SetIndex(LoadOne(Index, line))
                /\ line_no' = line_no + 1
                /\ UNCHANGED phase
    /\ UNCHANGED <<lexicon, backendVars, timerVars, callerVars>>
    /\ UNCHANGED webVars

\* The loop is over: __init__ calls _calculate_frequency_scores (line 17)
\* and the instance is ready.
CalculateScores ==
    /\ phase = "loading"
    /\ line_no = Len(lexicon)
    /\ SetIndex(_calculate_frequency_scores(Index))
    /\ phase' = "ready"
    /\ UNCHANGED <<lexicon, line_no, backendVars, timerVars, callerVars>>
    /\ UNCHANGED webVars

(***************************************************************************)
(* lookup.                                                                 *)
(***************************************************************************)
\* Calls that may still spawn an eviction timer.
BeforeSpawn == {c \in Callers : pc[c] \in {"L28", "L29", "L31", "L42", "L43", "L47", "L50"}}

Returns(c, dict) ==
    /\ pc' = [pc EXCEPT ![c] = "returned"]
    /\ result' = [result EXCEPT ![c] = dict]

\* A faulty Raises that swallows the exception and answers not-found; C12
\* does not hold of it.
raises_swallowed(c, exception) ==
    /\ pc' = [pc EXCEPT ![c] = "returned"]
    /\ result' = [result EXCEPT ![c] = _not_found(query[c])]

\* The exception leaves lookup: nothing between line 42 and the caller of
\* lookup handles it.
Raises(c, exception) ==
    /\ pc' = [pc EXCEPT ![c] = "raised"]
    /\ result' = [result EXCEPT ![c] = [exception |-> exception]]

\* A faulty Generated that leaves is_generated False; C8 does not hold of it.
generated_unflagged(word, final) ==
    [found |-> TRUE, query |-> word, count |-> 1,
     entries |-> << [is_generated |-> FALSE, simplified |-> word,
                     traditional |-> word, pinyin |-> Pinyin(word),
                     definitions |-> <<final>>,
                     message |-> "Phrase not in dictionary; generated via OPUS-MT.",
                     confidence |-> "generated"] >>]

\* The dict lookup returns after a translation (lines 272-287).
Generated(word, final) ==
    [found |-> TRUE, query |-> word, count |-> 1,
     entries |-> << [is_generated |-> TRUE, simplified |-> word,
                     traditional |-> word, pinyin |-> Pinyin(word),
                     definitions |-> <<final>>,
                     message |-> "Phrase not in dictionary; generated via OPUS-MT.",
                     confidence |-> "generated"] >>]

\* A faulty lookup whose translation runs on the event loop itself
\* (_do_inference called directly): no request starts while a translation
\* is in flight; C24 does not hold of it.
lookup_on_event_loop(c, chinese_word) ==
    /\ phase = "ready"
    /\ pc[c] = "idle"
    /\ \A d \in Callers : pc[d] \notin InGateway
    /\ \A d \in Callers : d < c => pc[d] # "idle"   \* the first free caller
    /\ query' = [query EXCEPT ![c] = chinese_word]
    /\ IF ~_is_chinese(chinese_word)
       THEN /\ Returns(c, _not_found(chinese_word))
            /\ UNCHANGED <<calls, entries>>
       ELSE IF Truthy(_exact_lookup(chinese_word))
       THEN /\ Returns(c, Found(chinese_word, _exact_lookup(chinese_word)))
            /\ entries' = SortWrites(_exact_lookup(chinese_word), chinese_word)
            /\ UNCHANGED calls
       ELSE IF _is_chinese(chinese_word)
       THEN \* bound: every call in the gateway may leave one more timer alive
            /\ Cardinality(Pending) + Cardinality(BeforeSpawn) < MaxTimers
            /\ pc' = [pc EXCEPT ![c] = "L28"]
            /\ calls' = [calls EXCEPT ![c] = @ + 1]
            /\ UNCHANGED <<result, entries>>
       ELSE /\ Returns(c, _not_found(chinese_word))
            /\ UNCHANGED <<calls, entries>>
    /\ UNCHANGED <<lexicon, line_no, phase, simplified_index, traditional_index,
                   compound_count, backendVars, timerVars, loc_translator,
                   loc_tokenizer, translation, loads>>
    /\ UNCHANGED webVars

\* A faulty service whose instance is published before it is built
\* (_dictionary_service assigned ahead of the build): a lookup is served
\* while lines are still indexed; C26 does not hold of it.
lookup_before_ready(c, chinese_word) ==
    /\ phase \in {"loading", "ready"}
    /\ pc[c] = "idle"
    /\ \A d \in Callers : d < c => pc[d] # "idle"   \* the first free caller
    /\ query' = [query EXCEPT ![c] = chinese_word]
    /\ IF ~_is_chinese(chinese_word)
       THEN /\ Returns(c, _not_found(chinese_word))
            /\ UNCHANGED <<calls, entries>>
       ELSE IF Truthy(_exact_lookup(chinese_word))
       THEN /\ Returns(c, Found(chinese_word, _exact_lookup(chinese_word)))
            /\ entries' = SortWrites(_exact_lookup(chinese_word), chinese_word)
            /\ UNCHANGED calls
       ELSE IF _is_chinese(chinese_word)
       THEN \* bound: every call in the gateway may leave one more timer alive
            /\ Cardinality(Pending) + Cardinality(BeforeSpawn) < MaxTimers
            /\ pc' = [pc EXCEPT ![c] = "L28"]
            /\ calls' = [calls EXCEPT ![c] = @ + 1]
            /\ UNCHANGED <<result, entries>>
       ELSE /\ Returns(c, _not_found(chinese_word))
            /\ UNCHANGED <<calls, entries>>
    /\ UNCHANGED <<lexicon, line_no, phase, simplified_index, traditional_index,
                   compound_count, backendVars, timerVars, loc_translator,
                   loc_tokenizer, translation, loads>>
    /\ UNCHANGED webVars

\* lookup(chinese_word), lines 250-270: the call returns at once, or hands
\* _do_inference to a tpool worker (_translate_phrase) and waits for it.
Lookup(c, chinese_word) ==
    /\ phase = "ready"
    /\ pc[c] = "idle"
    /\ \A d \in Callers : d < c => pc[d] # "idle"   \* the first free caller
    /\ query' = [query EXCEPT ![c] = chinese_word]
    /\ IF ~_is_chinese(chinese_word)
       THEN /\ Returns(c, _not_found(chinese_word))
            /\ UNCHANGED <<calls, entries>>
       ELSE IF Truthy(_exact_lookup(chinese_word))
       THEN /\ Returns(c, Found(chinese_word, _exact_lookup(chinese_word)))
            /\ entries' = SortWrites(_exact_lookup(chinese_word), chinese_word)
            /\ UNCHANGED calls
       ELSE IF _is_chinese(chinese_word)
       THEN \* bound: every call in the gateway may leave one more timer alive
            /\ Cardinality(Pending) + Cardinality(BeforeSpawn) < MaxTimers
            /\ pc' = [pc EXCEPT ![c] = "L28"]
            /\ calls' = [calls EXCEPT ![c] = @ + 1]
            /\ UNCHANGED <<result, entries>>
       ELSE /\ Returns(c, _not_found(chinese_word))
            /\ UNCHANGED <<calls, entries>>
    /\ UNCHANGED <<lexicon, line_no, phase, simplified_index, traditional_index,
                   compound_count, backendVars, timerVars, loc_translator,
                   loc_tokenizer, translation, loads>>
    /\ UNCHANGED webVars

\* The caller of lookup has taken the result or the exception, the client
\* of the endpoint its response.
Return(c) ==
    /\ pc[c] \in {"returned", "raised", "responded"}
    /\ pc' = [pc EXCEPT ![c] = "idle"]
    /\ query' = [query EXCEPT ![c] = <<>>]
    /\ result' = [result EXCEPT ![c] = NoResult]
    /\ translation' = [translation EXCEPT ![c] = <<>>]
    /\ loc_translator' = [loc_translator EXCEPT ![c] = "None"]
    /\ loc_tokenizer' = [loc_tokenizer EXCEPT ![c] = "None"]
    /\ calls' = [calls EXCEPT ![c] = 0]
    /\ loads' = [loads EXCEPT ![c] = 0]
    /\ UNCHANGED <<indexVars, backendVars, timerVars>>
    /\ UNCHANGED webVars

\* The parameters of DictionaryHandler.lookup besides self (line 239), and
\* the keywords of its call in lookup_word (api/dictionary.py line 43).
LookupParameters == {"chinese_word", "context"}

CallKeywords == {"prefer_longer"}

\* jsonify({'success': ..., 'entry': ...}), status; a body without an entry
\* has NoResult in its place.
Response(status, success, entry) ==
    [status |-> status, success |-> success, entry |-> entry]

\* What the endpoint answers for the dict lookup returned (lines 45-57).
ResponseOf(dict) ==
    IF dict.found THEN Response(200, TRUE, dict) ELSE Response(404, FALSE, dict)

Responds(c, response) ==
    /\ pc' = [pc EXCEPT ![c] = "responded"]
    /\ result' = [result EXCEPT ![c] = response]

\* lookup_word (api/dictionary.py lines 8-63), the body of the request
\* holding word.  A call with a keyword the callee has no parameter for
\* raises TypeError before the callee's first statement; the except clause
\* of line 59 answers 500 for any exception.  Were the call accepted, the
\* lookup would be answered from the index, or by a translation (any
\* decoded text, or an exception of the backend).
lookup_word(c, word) ==
    /\ pc[c] = "idle"
    /\ phase = "ready"
    /\ query' = [query EXCEPT ![c] = word]
    /\ IF StripChars(word, Whitespace) = <<>>
       THEN /\ Responds(c, Response(400, FALSE, NoResult))
            /\ UNCHANGED entries
       ELSE IF ~(CallKeywords \subseteq LookupParameters)
       THEN /\ Responds(c, Response(500, FALSE, NoResult))
            /\ UNCHANGED entries
       ELSE LET chinese_word == StripChars(word, Whitespace)
            IN  IF ~_is_chinese(chinese_word)
                THEN /\ Responds(c, ResponseOf(_not_found(chinese_word)))
                     /\ UNCHANGED entries
                ELSE IF Truthy(_exact_lookup(chinese_word))
                THEN /\ Responds(c, ResponseOf(Found(chinese_word,
                                                     _exact_lookup(chinese_word))))
                     /\ entries' = SortWrites(_exact_lookup(chinese_word),
                                              chinese_word)
                ELSE /\ \/ \E decoded \in Decoded :
                             Responds(c, ResponseOf(Generated(chinese_word,
                                                              Cleanup(decoded))))
                        \/ Responds(c, Response(500, FALSE, NoResult))
                     /\ UNCHANGED entries
    /\ UNCHANGED <<lexicon, line_no, phase, simplified_index, traditional_index,
                   compound_count, backendVars, timerVars, loc_translator,
                   loc_tokenizer, translation, calls, loads>>
    /\ UNCHANGED webVars

\* A faulty get_dictionary_service that takes a missing file for an empty
\* one and caches the instance; C25 does not hold of it.
start_service_caches_empty(c) ==
    /\ pc[c] = "idle"
    /\ phase = "none"
    /\ \E exists \in BOOLEAN :
          IF exists
          THEN /\ phase' = "loading"
               /\ pc' = [pc EXCEPT ![c] = "constructing"]
          ELSE /\ phase' = "ready"
               /\ UNCHANGED pc
    /\ UNCHANGED <<lexicon, line_no, entries, simplified_index,
                   traditional_index, compound_count, backendVars, timerVars,
                   query, loc_translator, loc_tokenizer, translation, result,
                   calls, loads>>
    /\ UNCHANGED webVars

\* get_dictionary_service called by a request while _dictionary_service is
\* None (lines 365-367): DictionaryHandler() starts; _load_dictionary
\* raises FileNotFoundError when the file does not exist (lines 109-110),
\* which leaves __init__ and get_dictionary_service, so that nothing is
\* assigned to _dictionary_service.  __init__ makes no cooperative call:
\* the hub runs no other request before it has returned.
StartService(c) ==
    /\ pc[c] = "idle"
    /\ phase = "none"
    /\ \E exists \in BOOLEAN :
          IF exists
          THEN /\ phase' = "loading"
               /\ pc' = [pc EXCEPT ![c] = "constructing"]
               /\ UNCHANGED result
          ELSE /\ Raises(c, "FileNotFoundError")
               /\ UNCHANGED phase
    /\ UNCHANGED <<lexicon, line_no, entries, simplified_index,
                   traditional_index, compound_count, backendVars, timerVars,
                   query, loc_translator, loc_tokenizer, translation,
                   calls, loads>>
    /\ UNCHANGED webVars

\* get_dictionary_service returns the instance to the request that had it
\* built (line 368); its lookup follows.
Constructed(c) ==
    /\ pc[c] = "constructing"
    /\ phase = "ready"
    /\ pc' = [pc EXCEPT ![c] = "idle"]
    /\ UNCHANGED <<indexVars, backendVars, timerVars, query, loc_translator,
                   loc_tokenizer, translation, result, calls, loads>>
    /\ UNCHANGED webVars

(***************************************************************************)
(* _get_translator, run inside _do_inference by a tpool worker thread.     *)
(* Worker threads are operating-system threads: they interleave with each  *)
(* other and with the hub between any two statements.                      *)
(***************************************************************************)
Goto(c, label) == pc' = [pc EXCEPT ![c] = label]

\* line 28: if self.loading_lock
CheckLock(c) ==
    /\ pc[c] = "L28"
    /\ Goto(c, IF loading_lock THEN "L29" ELSE "L31")
    /\ UNCHANGED <<indexVars, backendVars, timerVars, query, loc_translator,
                   loc_tokenizer, translation, result, calls, loads>>
    /\ UNCHANGED webVars

\* line 29: eventlet.sleep(0.1) is over
Sleep(c) ==
    /\ pc[c] = "L29"
    /\ Goto(c, "L31")
    /\ UNCHANGED <<indexVars, backendVars, timerVars, query, loc_translator,
                   loc_tokenizer, translation, result, calls, loads>>
    /\ UNCHANGED webVars

\* lines 31-32: if self.translator is None: self.loading_lock = True
CheckLoaded(c) ==
    /\ pc[c] = "L31"
    /\ IF translator = "None"
       THEN /\ loading_lock' = TRUE
            /\ loads' = [loads EXCEPT ![c] = @ + 1]
            /\ Goto(c, "L42")
       ELSE /\ Goto(c, "L47")
            /\ UNCHANGED <<loading_lock, loads>>
    /\ UNCHANGED <<indexVars, translator, tokenizer, unload_timer, timerVars,
                   query, loc_translator, loc_tokenizer, translation, result, calls>>
    /\ UNCHANGED webVars

\* line 42: ctranslate2.Translator(...) returns or raises; on an exception
\* the finally clause (line 45) runs and the exception leaves lookup.
LoadTranslator(c) ==
    /\ pc[c] = "L42"
    /\ \/ /\ translator' = "Translator"
          /\ Goto(c, "L43")
          /\ UNCHANGED <<loading_lock, result>>
       \/ /\ loading_lock' = FALSE
          /\ Raises(c, "load failed")
          /\ UNCHANGED translator
    /\ UNCHANGED <<indexVars, tokenizer, unload_timer, timerVars, query,
                   loc_translator, loc_tokenizer, translation, calls, loads>>
    /\ UNCHANGED webVars

\* lines 43-45: AutoTokenizer.from_pretrained(...) returns or raises, then
\* finally: self.loading_lock = False
LoadTokenizer(c) ==
    /\ pc[c] = "L43"
    /\ loading_lock' = FALSE
    /\ \/ /\ tokenizer' = "Tokenizer"
          /\ Goto(c, "L47")
          /\ UNCHANGED result
       \/ /\ Raises(c, "load failed")
          /\ UNCHANGED tokenizer
    /\ UNCHANGED <<indexVars, translator, unload_timer, timerVars, query,
                   loc_translator, loc_tokenizer, translation, calls, loads>>
    /\ UNCHANGED webVars

\* lines 47-48: if self.unload_timer: self.unload_timer.cancel()
\* (cancel stops a timer that has not fired and does nothing otherwise)
CancelTimer(c) ==
    /\ pc[c] = "L47"
    /\ timer_left' = IF unload_timer # NoTimer
                     THEN [t \in Pending \ {unload_timer} |-> timer_left[t]]
                     ELSE timer_left
    /\ Goto(c, "L50")
    /\ UNCHANGED <<indexVars, backendVars, unload_pc, since_reset, query,
                   loc_translator, loc_tokenizer, translation, result, calls,
                   loads>>
    /\ UNCHANGED webVars

\* line 50: self.unload_timer = eventlet.spawn_after(300, ...)
SpawnTimer(c) ==
    /\ pc[c] = "L50"
    /\ LET free == {t \in TimerIds : t \notin Pending /\ t # unload_timer}
           new  == CHOOSE t \in free : \A u \in free : t <= u
       IN  /\ timer_left' = (new :> IdleWindow) @@ timer_left
           /\ unload_timer' = new
    /\ since_reset' = 0
    /\ Goto(c, "L52")
    /\ UNCHANGED <<indexVars, translator, tokenizer, loading_lock, unload_pc,
                   query, loc_translator, loc_tokenizer, translation, result,
                   calls, loads>>
    /\ UNCHANGED webVars

\* line 52: return self.translator, self.tokenizer (two reads)
ReadTranslator(c) ==
    /\ pc[c] = "L52"
    /\ loc_translator' = [loc_translator EXCEPT ![c] = translator]
    /\ Goto(c, "L52b")
    /\ UNCHANGED <<indexVars, backendVars, timerVars, query, loc_tokenizer,
                   translation, result, calls, loads>>
    /\ UNCHANGED webVars

ReadTokenizer(c) ==
    /\ pc[c] = "L52b"
    /\ loc_tokenizer' = [loc_tokenizer EXCEPT ![c] = tokenizer]
    /\ Goto(c, "L71")
    /\ UNCHANGED <<indexVars, backendVars, timerVars, query, loc_translator,
                   translation, result, calls, loads>>
    /\ UNCHANGED webVars

\* _do_inference lines 71-102, then lookup lines 272-287.  tokenizer.encode
\* on None and translator.translate_batch on None raise AttributeError; the
\* model itself may fail too.  tpool.execute re-raises in the caller, and
\* lookup has no handler.  The locals of _do_inference end with it.
Inference(c, decoded) ==
    /\ pc[c] = "L71"
    /\ IF loc_tokenizer[c] = "None" \/ loc_translator[c] = "None"
       THEN /\ Raises(c, "AttributeError")
            /\ UNCHANGED translation
       ELSE \/ /\ translation' = [translation EXCEPT ![c] = Cleanup(decoded)]
               /\ Returns(c, Generated(query[c], Cleanup(decoded)))
            \/ /\ Raises(c, "inference failed")
               /\ UNCHANGED translation
    /\ loc_translator' = [loc_translator EXCEPT ![c] = "None"]
    /\ loc_tokenizer' = [loc_tokenizer EXCEPT ![c] = "None"]
    /\ UNCHANGED <<indexVars, backendVars, timerVars, query, calls, loads>>
    /\ UNCHANGED webVars

(***************************************************************************)
(* The hub: time, the eviction timers and _unload_translation_model.       *)
(* spawn_after is taken at its documented contract: the callback runs in   *)
(* the hub once the delay has passed, unless the timer was cancelled       *)
(* before; a timer that has not fired is true in the test of line 47.      *)
(***************************************************************************)
Min(a, b) == IF a < b THEN a ELSE b
Max(a, b) == IF a > b THEN a ELSE b

\* Time passes; a timer that is due fires before more time passes.
Tick ==
    /\ Pending # {}
    /\ \A t \in Pending : timer_left[t] > 0
    /\ timer_left' = [t \in Pending |-> Max(0, timer_left[t] - TickLength)]
    /\ since_reset' = Min(IdleWindow, since_reset + TickLength)
    /\ UNCHANGED <<indexVars, backendVars, unload_pc, callerVars>>
    /\ UNCHANGED webVars

\* A due timer starts _unload_translation_model in the hub.
Fire(t) ==
    /\ t \in Pending
    /\ timer_left[t] = 0
    /\ unload_pc = "idle"
    /\ timer_left' = [u \in Pending \ {t} |-> timer_left[u]]
    /\ unload_pc' = "L57"
    /\ UNCHANGED <<indexVars, backendVars, since_reset, callerVars>>
    /\ UNCHANGED webVars

\* line 57: self.translator = None
UnloadTranslator ==
    /\ unload_pc = "L57"
    /\ translator' = "None"
    /\ unload_pc' = "L58"
    /\ UNCHANGED <<indexVars, tokenizer, unload_timer, loading_lock,
                   timer_left, since_reset, callerVars>>
    /\ UNCHANGED webVars

\* line 58: self.tokenizer = None
UnloadTokenizer ==
    /\ unload_pc = "L58"
    /\ tokenizer' = "None"
    /\ unload_pc' = "L59"
    /\ UNCHANGED <<indexVars, translator, unload_timer, loading_lock,
                   timer_left, since_reset, callerVars>>
    /\ UNCHANGED webVars

\* lines 59-62: self.unload_timer = None, then the cache is emptied
UnloadTimer ==
    /\ unload_pc = "L59"
    /\ unload_timer' = NoTimer
    /\ unload_pc' = "idle"
    /\ UNCHANGED <<indexVars, translator, tokenizer, loading_lock,
                   timer_left, since_reset, callerVars>>
    /\ UNCHANGED webVars

(***************************************************************************)
(* Python dicts keyed by session id.                                       *)
(***************************************************************************)
\* dict.get(key, default)
Get(dict, key, default) == IF key \in DOMAIN dict THEN dict[key] ELSE default

\* dict[key] = value
Put(dict, key, value) ==
    [k \in DOMAIN dict \cup {key} |-> IF k = key THEN value ELSE dict[k]]

\* The session ids of the model: the one a request without session_id gets.
Sessions == {"default"}

(***************************************************************************)
(* api/audio_stream/audio_stream.py: the handlers of the socket events.    *)
(* Each event is handled in a green thread of its own; a handler runs      *)
(* until it ends or waits for the network, which only finalize does, in    *)
(* requests.post (line 121).                                               *)
(***************************************************************************)
Finalizers == 1..MaxSpeaks

NoSpeak == [pc |-> "idle", session_id |-> "", combined_webm |-> <<>>,
            spoken |-> <<>>, path |-> ""]

\* start_speak (lines 30-49): the buffer of the session is reset; the client
\* begins an utterance.
start_audio_session(session_id) ==
    /\ session_chunks' = Put(session_chunks, session_id, <<>>)
    /\ utterance' = <<>>
    /\ UNCHANGED <<sent, speak, transcript_ready, chatVars, serviceVars>>

\* audio_chunk (lines 52-77): the chunk is appended, to a new buffer when
\* the session has none.
handle_audio_chunk(session_id) ==
    /\ sent < MaxChunks
    /\ sent' = sent + 1
    /\ session_chunks' = Put(session_chunks, session_id,
                             Append(Get(session_chunks, session_id, <<>>),
                                    sent + 1))
    /\ utterance' = Append(utterance, sent + 1)
    /\ UNCHANGED <<speak, transcript_ready, chatVars, serviceVars>>

\* The finally clause of finalize_audio_session (lines 164-167).
Cleaned(session_id) ==
    IF session_id \in DOMAIN session_chunks
    THEN Put(session_chunks, session_id, <<>>)
    ELSE session_chunks

\* end_speak, lines 80-121: with no chunks, transcript_ready is emitted with
\* an empty text and the handler returns through its finally clause;
\* otherwise the chunks are joined and posted to the recognition service,
\* and the handler waits for the answer.  The utterance of the client ends.
finalize_audio_session(h, session_id) ==
    /\ speak[h].pc = "idle"
    /\ \A g \in Finalizers : g < h => speak[g].pc # "idle"
    /\ utterance' = <<>>
    /\ IF session_id \notin DOMAIN session_chunks
          \/ session_chunks[session_id] = <<>>
       THEN /\ transcript_ready' = [transcript_ready EXCEPT ![h] = @ + 1]
            /\ speak' = [speak EXCEPT ![h] =
                            [pc |-> "done", session_id |-> session_id,
                             combined_webm |-> <<>>, spoken |-> utterance,
                             path |-> "no chunks"]]
            /\ session_chunks' = Cleaned(session_id)
       ELSE /\ speak' = [speak EXCEPT ![h] =
                            [pc |-> "L121", session_id |-> session_id,
                             combined_webm |-> session_chunks[session_id],
                             spoken |-> utterance, path |-> ""]]
            /\ UNCHANGED <<transcript_ready, session_chunks>>
    /\ UNCHANGED <<sent, chatVars, serviceVars>>

\* How the post to the recognition service ends: status 200, another
\* status, requests.exceptions.Timeout, or any other exception (of the post
\* or of response.json()).
Outcomes == {"200", "error status", "Timeout", "Exception"}

\* end_speak, lines 121-167: the post is over.  Each outcome emits one
\* transcript_ready (line 132 for a status, line 146 for a timeout, line
\* 158 for another exception), and the buffer is reset (line 142, and the
\* finally clause).
asr_responds(h, outcome) ==
    /\ speak[h].pc = "L121"
    /\ transcript_ready' = [transcript_ready EXCEPT ![h] = @ + 1]
    /\ session_chunks' = Cleaned(speak[h].session_id)
    /\ speak' = [speak EXCEPT ![h].pc = "done", ![h].path = outcome]
    /\ UNCHANGED <<utterance, sent, chatVars, serviceVars>>

(***************************************************************************)
(* api/chat.py and api/session.py: the HTTP handlers of a session.  Each   *)
(* request is handled in a green thread; chat waits for the network in     *)
(* llm.get_response (line 41) and in the post to the synthesis service     *)
(* (line 51).                                                              *)
(***************************************************************************)
ChatHandlers == 1..NumChats

NoChat == [pc |-> "idle", user_input |-> <<>>]

\* What the language model answers: a Chinese sentence (its fallback
\* messages are Chinese, too).
Reply == <<22909>>

\* The texts of the chat requests: Chinese, Chinese with an English word,
\* and no text.
ChatTexts == { <<25171>>, <<25171, 104, 105>>, <<>> }

\* chat, lines 15-38: 400 for a request without text; otherwise the stores
\* of the session are created if missing and the user turn is recorded.
\* The field turn numbers the user turns; the code has no such field.
ChatRecord(k, session_id, user_input) ==
    /\ chats[k].pc = "idle"
    /\ \A j \in ChatHandlers : j < k => chats[j].pc # "idle"
    /\ IF user_input = <<>>
       THEN UNCHANGED <<transcripts, conversation_histories, chats, turns>>
       ELSE /\ turns < MaxTurns
            /\ turns' = turns + 1
            /\ conversation_histories' =
                  Put(conversation_histories, session_id,
                      Get(conversation_histories, session_id, <<>>))
            /\ transcripts' =
                  Put(transcripts, session_id,
                      Append(Get(transcripts, session_id, <<>>),
                             [role |-> "user", text |-> user_input,
                              turn |-> turns + 1]))
            /\ chats' = [chats EXCEPT ![k] = [pc |-> "L41",
                                              user_input |-> user_input]]
    /\ UNCHANGED <<ending, analysed, audioVars, serviceVars>>

\* chat, lines 41-45: the language model has answered; both turns go to the
\* history and the answer to the transcript the session has now.
ChatReply(k, session_id) ==
    /\ chats[k].pc = "L41"
    /\ conversation_histories' =
          Put(conversation_histories, session_id,
              conversation_histories[session_id]
                  \o << [role |-> "user", content |-> chats[k].user_input],
                        [role |-> "assistant", content |-> Reply] >>)
    /\ transcripts' =
          Put(transcripts, session_id,
              Append(transcripts[session_id],
                     [role |-> "assistant", text |-> Reply, turn |-> 0]))
    /\ chats' = [chats EXCEPT ![k].pc = "L51"]
    /\ UNCHANGED <<ending, analysed, turns, audioVars, serviceVars>>

\* chat, lines 47-90: the synthesis service has answered or failed; the
\* response is sent.
ChatRespond(k) ==
    /\ chats[k].pc = "L51"
    /\ chats' = [chats EXCEPT ![k] = NoChat]
    /\ UNCHANGED <<transcripts, conversation_histories, ending, analysed,
                   turns, audioVars, serviceVars>>

\* PhraseExtractor.WORD_RE matches in a text exactly when the text has a
\* letter of A-Z or a-z, and every match passes _is_english_phrase.
IsLetter(ch) == ch \in 65..90 \/ ch \in 97..122

HasEnglishPhrase(text) == \E i \in 1..Len(text) : IsLetter(text[i])

\* analyze_session, step 1 (models/feedback_gen.py lines 109-135): the
\* places of the user turns that have an English phrase.
Flagged(transcript) ==
    { i \in 1..Len(transcript) :
          transcript[i].role = "user" /\ HasEnglishPhrase(transcript[i].text) }

\* The parameters of LLMHandler.suggest_phrase besides self, none with a
\* default (models/llm_handler.py line 129).
SuggestParameters == {"english_phrase", "original_sentence", "corrected_sentence"}

\* The keywords a call of suggest_phrase would have to carry; C30 does not
\* hold if _cached_suggest carried them.
suggest_keywords_declared == {"english_phrase", "original_sentence", "corrected_sentence"}

\* The keywords of the call in _cached_suggest (models/feedback_gen.py
\* line 34).
SuggestKeywords == {"english_phrase", "sentence_context"}

\* end_session (api/session.py lines 20-41).  analyze_session is called
\* with the list of the session.  With no flagged turn it makes no call of
\* the language model and returns; the transcript is reset and the answer
\* is 200.  With a flagged turn its first call of the model is
\* suggest_phrase, through _cached_suggest: the keywords of that call do
\* not fit the parameters, TypeError leaves analyze_session and
\* end_session, the answer is 500 and line 35 is not reached.  Were the
\* call accepted, the handler would wait for the model (position "L32")
\* and reset the transcript afterwards.
end_session(session_id) ==
    /\ ending.pc \in {"idle", "L32"}
    /\ IF ending.pc = "idle"
       THEN LET transcript == Get(transcripts, session_id, <<>>)
            IN  /\ analysed' = Append(analysed, transcript)
                /\ IF Flagged(transcript) = {}
                   THEN /\ transcripts' = Put(transcripts, session_id, <<>>)
                        /\ ending' = [pc |-> "responded", status |-> 200]
                   ELSE IF SuggestKeywords # SuggestParameters
                   THEN /\ ending' = [pc |-> "responded", status |-> 500]
                        /\ UNCHANGED transcripts
                   ELSE /\ ending' = [pc |-> "L32", status |-> 0]
                        /\ UNCHANGED transcripts
       ELSE /\ transcripts' = Put(transcripts, session_id, <<>>)
            /\ ending' = [pc |-> "responded", status |-> 200]
            /\ UNCHANGED analysed
    /\ UNCHANGED <<conversation_histories, chats, turns, audioVars,
                   serviceVars>>

\* No socket event and no HTTP request of a session has arrived.
InitWeb ==
    /\ session_chunks = <<>>
    /\ utterance = <<>>
    /\ sent = 0
    /\ speak = [h \in Finalizers |-> NoSpeak]
    /\ transcript_ready = [h \in Finalizers |-> 0]
    /\ transcripts = <<>>
    /\ conversation_histories = <<>>
    /\ chats = [k \in ChatHandlers |-> NoChat]
    /\ ending = [pc |-> "idle", status |-> 0]
    /\ analysed = <<>>
    /\ turns = 0

(***************************************************************************)
(* Specifications.                                                         *)
(***************************************************************************)
\* The fields __init__ sets after the build (lines 20-24), the hub and the
\* callers before any request.
InitBackend ==
    /\ translator = "None"
    /\ tokenizer = "None"
    /\ unload_timer = NoTimer
    /\ loading_lock = FALSE
    /\ timer_left = <<>>
    /\ unload_pc = "idle"
    /\ since_reset = 0
    /\ pc = [c \in Callers |-> "idle"]
    /\ query = [c \in Callers |-> <<>>]
    /\ loc_translator = [c \in Callers |-> "None"]
    /\ loc_tokenizer = [c \in Callers |-> "None"]
    /\ translation = [c \in Callers |-> <<>>]
    /\ result = [c \in Callers |-> NoResult]
    /\ calls = [c \in Callers |-> 0]
    /\ loads = [c \in Callers |-> 0]

\* The service after construction from ServiceFile.
Init ==
    /\ lexicon = ServiceFile
    /\ line_no = Len(ServiceFile)
    /\ phase = "ready"
    /\ entries = Construct(ServiceFile).entries
    /\ simplified_index = Construct(ServiceFile).simplified_index
    /\ traditional_index = Construct(ServiceFile).traditional_index
    /\ compound_count = Construct(ServiceFile).compound_count
    /\ InitBackend
    /\ InitWeb

Next ==
    \/ \E c \in Callers, w \in ServiceQueries : Lookup(c, w)
    \/ \E c \in Callers : Return(c)
    \/ \E c \in Callers : CheckLock(c)
    \/ \E c \in Callers : Sleep(c)
    \/ \E c \in Callers : CheckLoaded(c)
    \/ \E c \in Callers : LoadTranslator(c)
    \/ \E c \in Callers : LoadTokenizer(c)
    \/ \E c \in Callers : CancelTimer(c)
    \/ \E c \in Callers : SpawnTimer(c)
    \/ \E c \in Callers : ReadTranslator(c)
    \/ \E c \in Callers : ReadTokenizer(c)
    \/ \E c \in Callers, decoded \in Decoded : Inference(c, decoded)
    \/ Tick
    \/ \E t \in TimerIds : Fire(t)
    \/ UnloadTranslator
    \/ UnloadTokenizer
    \/ UnloadTimer

Spec == Init /\ [][Next]_vars

\* The hub runs a due timer and the callback it started to the end, and
\* time passes: the scheduling eventlet's hub provides.
Fairness ==
    /\ WF_vars(Tick)
    /\ \A t \in TimerIds : WF_vars(Fire(t))
    /\ WF_vars(UnloadTranslator)
    /\ WF_vars(UnloadTokenizer)
    /\ WF_vars(UnloadTimer)

SpecLive == Init /\ [][Next]_vars /\ Fairness

\* The construction of the service from any file, then lookups answered
\* from the index by one client.
InitBuild ==
    /\ lexicon \in Files
    /\ line_no = 0
    /\ phase = "loading"
    /\ entries = <<>>
    /\ simplified_index = <<>>
    /\ traditional_index = <<>>
    /\ compound_count = <<>>
    /\ InitBackend
    /\ InitWeb

NextBuild ==
    \/ LoadLine
    \/ CalculateScores
    \/ \E w \in Queries :
          /\ ~_is_chinese(w) \/ Truthy(_exact_lookup(w))
          /\ Lookup(1, w)
    \/ Return(1)

SpecBuild == InitBuild /\ [][NextBuild]_vars

\* The process before the first request: no instance yet, the file present
\* or not at each attempt; requests of the callers, answered from the index.
StartFiles == TieFiles \cup LoneFiles \cup BothFiles \cup {ServiceFile}

InitStart ==
    /\ lexicon \in StartFiles
    /\ line_no = 0
    /\ phase = "none"
    /\ entries = <<>>
    /\ simplified_index = <<>>
    /\ traditional_index = <<>>
    /\ compound_count = <<>>
    /\ InitBackend
    /\ InitWeb

NextStart ==
    \/ \E c \in Callers : StartService(c)
    \/ LoadLine
    \/ CalculateScores
    \/ \E c \in Callers : Constructed(c)
    \/ \E c \in Callers, w \in Queries :
          /\ ~_is_chinese(w) \/ Truthy(_exact_lookup(w))
          /\ Lookup(c, w)
    \/ \E c \in Callers : Return(c)

SpecStart == InitStart /\ [][NextStart]_vars

\* The bodies of the requests sent to the endpoint: the queries, an empty
\* word and a word of one space.
Words == Queries \cup { <<>>, <<32>> }

\* The running service behind its HTTP endpoint.
NextApi ==
    \/ \E c \in Callers, word \in Words : lookup_word(c, word)
    \/ \E c \in Callers : Return(c)

SpecApi == Init /\ [][NextApi]_vars

\* The running service with one client at a time and no eviction, the
\* translation model decoding any text of Texts.
NextClean ==
    \/ \E w \in ServiceQueries : Lookup(1, w)
    \/ Return(1)
    \/ CheckLock(1)
    \/ CheckLoaded(1)
    \/ LoadTranslator(1)
    \/ LoadTokenizer(1)
    \/ CancelTimer(1)
    \/ SpawnTimer(1)
    \/ ReadTranslator(1)
    \/ ReadTokenizer(1)
    \/ \E decoded \in Texts : Inference(1, decoded)

SpecClean == Init /\ [][NextClean]_vars

\* The audio events of a session in any order, the recognition service
\* answering in any of its ways.
NextAudio ==
    \/ \E s \in Sessions : start_audio_session(s)
    \/ \E s \in Sessions : handle_audio_chunk(s)
    \/ \E h \in Finalizers, s \in Sessions : finalize_audio_session(h, s)
    \/ \E h \in Finalizers, outcome \in Outcomes : asr_responds(h, outcome)

SpecAudio == Init /\ [][NextAudio]_vars

\* The chat requests of a session and its end-session request.
NextSession ==
    \/ \E k \in ChatHandlers, s \in Sessions, text \in ChatTexts :
          ChatRecord(k, s, text)
    \/ \E k \in ChatHandlers, s \in Sessions : ChatReply(k, s)
    \/ \E k \in ChatHandlers : ChatRespond(k)
    \/ \E s \in Sessions : end_session(s)

SpecSession == Init /\ [][NextSession]_vars

(***************************************************************************)
(* Properties.                                                             *)
(***************************************************************************)
\* The entries of the lines of a file that are neither skipped nor parsed
\* to None, in file order.
RECURSIVE ParsedLines(_)
ParsedLines(file) ==
    IF file = <<>> THEN <<>>
    ELSE (IF Skipped(Head(file)) \/ _parse_line(Head(file)) = NoEntry
          THEN <<>> ELSE <<_parse_line(Head(file))>>)
         \o ParsedLines(Tail(file))

\* The entries of the lexicon, and of the lines consumed so far.
Parsed == ParsedLines(lexicon)

ParsedSoFar == ParsedLines(SubSeq(lexicon, 1, line_no))

\* Calls whose worker is inside the try block of _get_translator.
LoadingCallers == {c \in Callers : pc[c] \in {"L42", "L43"}}

\* C1: whatever the interleaving of translate calls, at most one load of
\* the backend is in progress at any moment (a caller that arrives during a
\* load waits for it and starts no load of its own).
C1_AtMostOneLoadInProgress == Cardinality(LoadingCallers) <= 1

\* C2: the (translator, tokenizer) pair a translate call takes from
\* _get_translator into inference is always fully loaded, never half
\* loaded or half unloaded.
C2_PairFullyLoaded ==
    \A c \in Callers :
        pc[c] = "L71" =>
            loc_translator[c] = "Translator" /\ loc_tokenizer[c] = "Tokenizer"

\* The shape of a Generated result for a query: one entry, flagged
\* generated, both headwords the query.
GeneratedShape(dict, word) ==
    /\ dict.found = TRUE
    /\ dict.count = 1
    /\ Len(dict.entries) = 1
    /\ dict.entries[1].is_generated = TRUE
    /\ dict.entries[1].simplified = word
    /\ dict.entries[1].traditional = word
    /\ Len(dict.entries[1].definitions) = 1

\* C3: a lookup that went to the translator always ends by returning a
\* well-formed Generated result, also when the load or the inference
\* failed: no exception leaves lookup.
C3_FailureStaysInsideLookup ==
    \A c \in Callers :
        /\ pc[c] # "raised"
        /\ (pc[c] = "returned" /\ calls[c] > 0) =>
              GeneratedShape(result[c], query[c])

\* The lines of the lexicon that are compounds beginning with the given
\* character and carrying the given reading for it.
CompoundsWith(char, reading) ==
    {i \in 1..Len(Parsed) :
        /\ Len(Parsed[i].simplified) > 1
        /\ Parsed[i].simplified[1] = char
        /\ Parsed[i].pinyin[1] = reading}

\* The lexicon holds two entries for U+6253, read da3 and da2; five
\* compounds carry da3 and one carries da2.
FiveToOneLexicon ==
    /\ \E i, j \in 1..Len(Parsed) :
          /\ Parsed[i].simplified = <<25171>> /\ Parsed[i].pinyin = <<"da3">>
          /\ Parsed[j].simplified = <<25171>> /\ Parsed[j].pinyin = <<"da2">>
          /\ \A k \in 1..Len(Parsed) :
                Parsed[k].simplified = <<25171>> => k \in {i, j}
    /\ Cardinality(CompoundsWith(25171, "da3")) = 5
    /\ Cardinality(CompoundsWith(25171, "da2")) = 1

\* C4: with that lexicon built, lookup of the character returns the da3
\* entry first, labelled "most common", and the da2 entry second, labelled
\* "less common".
C4_FiveToOneRanksFirst ==
    \A c \in Callers :
        (pc[c] = "returned" /\ query[c] = <<25171>> /\ FiveToOneLexicon) =>
            /\ Len(result[c].entries) = 2
            /\ result[c].entries[1].pinyin = <<"da3">>
            /\ result[c].entries[1].confidence = "most common"
            /\ result[c].entries[2].pinyin = <<"da2">>
            /\ result[c].entries[2].confidence = "less common"

\* The keys of a returned entry that the indexed entry has, too.
Stripped(returned, indexed) == [f \in DOMAIN indexed |-> returned[f]]

\* The list of heap positions the index holds for a headword (simplified
\* table first).
Listed(word) ==
    IF word \in DOMAIN simplified_index THEN simplified_index[word]
    ELSE IF word \in DOMAIN traditional_index THEN traditional_index[word]
    ELSE <<>>

\* A lookup of word returned dict, the index lists exactly two entries for
\* word, and the entry at heap position hi has the higher frequency score:
\* it comes first as "most common", the other second as "less common".
RanksHigherFirst(dict, hi, lo) ==
    /\ Len(dict.entries) = 2
    /\ Stripped(dict.entries[1], entries[hi]) = entries[hi]
    /\ dict.entries[1].confidence = "most common"
    /\ Stripped(dict.entries[2], entries[lo]) = entries[lo]
    /\ dict.entries[2].confidence = "less common"

\* C5 as stated: for any headword with two entries of different frequency
\* score, in either insertion order, the lookup returns the higher one
\* first as "most common" and the other as "less common".
C5_AnyHeadwordHigherFirst ==
    \A c \in Callers :
        (pc[c] = "returned" /\ Len(Listed(query[c])) = 2) =>
            \A hi, lo \in {Listed(query[c])[1], Listed(query[c])[2]} :
                FrequencyScore(entries[hi]) > FrequencyScore(entries[lo]) =>
                    RanksHigherFirst(result[c], hi, lo)

\* C5 amended: the same for any single-character headword.
C5_SingleCharacterHigherFirst ==
    \A c \in Callers :
        (pc[c] = "returned" /\ Len(Listed(query[c])) = 2 /\ Len(query[c]) = 1) =>
            \A hi, lo \in {Listed(query[c])[1], Listed(query[c])[2]} :
                FrequencyScore(entries[hi]) > FrequencyScore(entries[lo]) =>
                    RanksHigherFirst(result[c], hi, lo)

\* A single-character lookup has returned the second-listed entry first,
\* because its score is higher.
C5_Witness ==
    \E c \in Callers :
        /\ pc[c] = "returned"
        /\ Len(query[c]) = 1
        /\ Len(Listed(query[c])) = 2
        /\ FrequencyScore(entries[Listed(query[c])[2]])
              > FrequencyScore(entries[Listed(query[c])[1]])
        /\ RanksHigherFirst(result[c], Listed(query[c])[2], Listed(query[c])[1])

\* No character of the text lies in U+4E00..U+9FFF.
NoCharacterInRange(text) ==
    \A i \in 1..Len(text) : text[i] < 19968 \/ text[i] > 40959

\* C6: a query with no character in U+4E00..U+9FFF returns the not-found
\* result with no entries, and the call neither invokes the translator nor
\* loads it.
C6_NonChineseShortCircuit ==
    \A c \in Callers :
        (pc[c] # "idle" /\ NoCharacterInRange(query[c])) =>
            /\ pc[c] = "returned"
            /\ result[c].found = FALSE
            /\ result[c].entries = <<>>
            /\ result[c].count = 0
            /\ calls[c] = 0
            /\ loads[c] = 0

\* Such a query, a headword of the lexicon, was answered not-found while
\* another call was using the translator.
C6_Witness ==
    \E c, d \in Callers :
        /\ pc[c] = "returned"
        /\ query[c] = <<104>>
        /\ query[c] \in DOMAIN simplified_index
        /\ result[c] = _not_found(<<104>>)
        /\ calls[c] = 0
        /\ loads[c] = 0
        /\ pc[d] = "L71"

\* C7: the translator is invoked only by a call whose exact lookup was
\* empty; a call whose exact lookup is non-empty returns Found with exactly
\* the listed entries, none of them generated, and never invokes the
\* translator.
C7_ExactLookupExcludesTranslator ==
    \A c \in Callers :
        /\ calls[c] > 0 => Listed(query[c]) = <<>>
        /\ (pc[c] # "idle" /\ ~NoCharacterInRange(query[c])
                /\ Listed(query[c]) # <<>>) =>
              /\ pc[c] = "returned"
              /\ calls[c] = 0
              /\ result[c].found = TRUE
              /\ result[c].count = Len(Listed(query[c]))
              /\ Len(result[c].entries) = Len(Listed(query[c]))
              /\ \A k \in 1..Len(result[c].entries) :
                    result[c].entries[k].is_generated = FALSE
              /\ \A i \in 1..Len(Listed(query[c])) :
                    \E k \in 1..Len(result[c].entries) :
                        Stripped(result[c].entries[k], entries[Listed(query[c])[i]])
                            = entries[Listed(query[c])[i]]

\* A headword found only in the traditional table was answered from the
\* index while another call was in the translator.
C7_Witness ==
    \E c, d \in Callers :
        /\ pc[c] = "returned"
        /\ query[c] = <<25171, 38651>>
        /\ result[c].found = TRUE
        /\ calls[c] = 0
        /\ calls[d] = 1
        /\ pc[d] = "L71"

\* C8: a lookup of a text with a character in range that is a key of
\* neither table returns found, count 1 and one entry: generated, both
\* headwords the query, definitions the translator's output alone.
C8_GeneratedResultShape ==
    \A c \in Callers :
        (pc[c] = "returned" /\ ~NoCharacterInRange(query[c])
            /\ query[c] \notin DOMAIN simplified_index
            /\ query[c] \notin DOMAIN traditional_index) =>
                /\ GeneratedShape(result[c], query[c])
                /\ result[c].entries[1].definitions = <<translation[c]>>

C8_Witness ==
    \E c \in Callers :
        /\ pc[c] = "returned"
        /\ query[c] = <<104, 40959>>
        /\ translation[c] = <<104, 105>>
        /\ result[c].entries[1].definitions = <<<<104, 105>>>>
        /\ result[c].entries[1].is_generated = TRUE

\* Both parts of the backend are present.
Loaded == translator = "Translator" /\ tokenizer = "Tokenizer"

Unloaded == translator = "None" /\ tokenizer = "None" /\ unload_timer = NoTimer

\* No translate request is under way.
Quiet == \A c \in Callers : pc[c] \notin InGateway

\* C9: once the backend is loaded and no translate request is under way,
\* then, unless a new translate request arrives, the idle window runs out
\* and the backend becomes unloaded: translator, tokenizer and timer cleared.
C9_IdleBackendIsEvicted == (Loaded /\ Quiet) ~> (Unloaded \/ ~Quiet)

\* The same from the states in which no eviction is running: this one holds.
StableLoadedIsEvicted ==
    (Loaded /\ unload_pc = "idle" /\ Quiet) ~> (Unloaded \/ ~Quiet)

\* A call got its translation from the loaded backend and, with no request
\* since, the idle window ran out and the eviction cleared everything.
C9_Witness ==
    /\ Unloaded
    /\ Quiet
    /\ unload_pc = "idle"
    /\ Pending = {}
    /\ since_reset >= IdleWindow
    /\ \E c \in Callers : pc[c] = "returned" /\ calls[c] = 1

\* C10: every translate call cancels the eviction that was scheduled and
\* schedules a new one, so at most one eviction is pending at any time, and
\* an eviction starts only when a whole idle window has passed since the
\* timer was last reset.
C10_OnePendingEviction ==
    /\ [](Cardinality(Pending) <= 1)
    /\ [][(unload_pc = "idle" /\ unload_pc' = "L57")
              => since_reset >= IdleWindow]_vars

\* The state of the gateway as the fields show it; a running eviction is
\* the move from Loaded to Unloaded in progress.
GatewayState ==
    IF loading_lock THEN "Loading"
    ELSE IF unload_pc # "idle" THEN "Evicting"
    ELSE IF translator = "None" /\ tokenizer = "None" THEN "Unloaded"
    ELSE IF translator = "Translator" /\ tokenizer = "Tokenizer" THEN "Loaded"
    ELSE "Torn"

\* The moves of the gateway: Unloaded -> Loading -> Loaded -> (Evicting ->)
\* Unloaded, and a load that failed goes back to Unloaded.
GatewayMoves ==
    { <<"Unloaded", "Loading">>, <<"Loading", "Loaded">>,
      <<"Loading", "Unloaded">>, <<"Loaded", "Evicting">>,
      <<"Evicting", "Unloaded">> }

\* C11: the gateway only ever moves along Unloaded -> Loading -> Loaded ->
\* Unloaded, and a translate call that enters inference after an eviction
\* holds a pair that a full load produced (both parts present).
C11_GatewayCycle ==
    /\ [][GatewayState' = GatewayState
             \/ <<GatewayState, GatewayState'>> \in GatewayMoves]_vars
    /\ [](\A c \in Callers :
             (pc[c] = "L71" /\ loads[c] = 1) =>
                 loc_translator[c] = "Translator" /\ loc_tokenizer[c] = "Tokenizer")

\* A load, an eviction and a second load: the first call has returned its
\* translation, the timer it set has fired and cleared everything, and the
\* second call is inside its own load.
C11_Witness ==
    \E c, d \in Callers :
        /\ pc[d] = "returned" /\ calls[d] = 1 /\ loads[d] = 1
        /\ pc[c] = "L43" /\ loads[c] = 1
        /\ unload_timer = NoTimer /\ Pending = {} /\ unload_pc = "idle"
        /\ since_reset >= IdleWindow
        /\ tokenizer = "None"

\* A call's load of the backend has failed and the caller has the error.
LoadFailed(c) == pc[c] = "raised" /\ result[c] = [exception |-> "load failed"]

\* C12: a call whose load of the backend fails ends with an error for its
\* caller, the loading flag cleared and the index untouched; the service
\* goes on: while that caller holds the error, a lookup of an indexed
\* headword can still be made and any lookup made then of an indexed
\* headword returns Found with its entries.
C12_LoadFailureIsReported ==
    /\ [][\A c \in Callers :
             (pc[c] \in {"L42", "L43"} /\ pc'[c] \notin InGateway) =>
                 /\ LoadFailed(c)'
                 /\ loading_lock' = FALSE
                 /\ UNCHANGED indexVars]_vars
    /\ [][\A c, d \in Callers :
             (LoadFailed(d) /\ pc[c] = "idle" /\ pc'[c] # "idle"
                 /\ Listed(query'[c]) # <<>> /\ ~NoCharacterInRange(query'[c])) =>
                   /\ pc'[c] = "returned"
                   /\ result'[c].found = TRUE
                   /\ result'[c].count = Len(Listed(query'[c]))]_vars
    /\ []((\E d \in Callers : LoadFailed(d)) /\ (\E c \in Callers : pc[c] = "idle")
             => ENABLED (\E c \in Callers : Lookup(c, <<25171>>)))

\* The first call's load has failed and it holds the error; a call made
\* meanwhile was answered from the index.
C12_Witness ==
    \E c, d \in Callers :
        /\ LoadFailed(d)
        /\ loads[d] = 1
        /\ loading_lock = FALSE
        /\ pc[c] = "returned"
        /\ query[c] = <<25171>>
        /\ result[c].found = TRUE
        /\ result[c].count = 2

\* C13: whatever lookups have been made and however they ended, the two
\* indexes, the compound counts and every indexed entry are those the build
\* produced from the lexicon: no label, no sort score and no generated entry
\* is ever written to them.
C13_LookupLeavesIndexAlone ==
    phase = "ready" => Index = Construct(lexicon)

\* One call has returned ranked, labelled entries and another a generated
\* entry, and the indexed entries carry neither label nor sort score.
C13_Witness ==
    \E c, d \in Callers :
        /\ pc[c] = "returned" /\ query[c] = <<25171>>
        /\ result[c].entries[1].confidence = "most common"
        /\ result[c].entries[1].sort_score = 1
        /\ pc[d] = "returned" /\ calls[d] = 1
        /\ result[d].entries[1].is_generated = TRUE
        /\ \A i \in DOMAIN entries :
              /\ "confidence" \notin DOMAIN entries[i]
              /\ "sort_score" \notin DOMAIN entries[i]
              /\ entries[i].is_generated = FALSE

\* The returned list is the listed entries (heap positions ids, in insertion
\* order) sorted by descending score, equal scores in insertion order.
StablyRanked(returned, ids) ==
    /\ Len(returned) = Len(ids)
    /\ \E p \in Permutations(1..Len(ids)) :
          /\ \A k \in 1..Len(ids) :
                Stripped(returned[k], entries[ids[p[k]]]) = entries[ids[p[k]]]
          /\ \A k, l \in 1..Len(ids) :
                k < l =>
                    LET a == FrequencyScore(entries[ids[p[k]]])
                        b == FrequencyScore(entries[ids[p[l]]])
                    IN  a > b \/ (a = b /\ p[k] < p[l])

AllScoresZero(ids) ==
    \A i \in 1..Len(ids) : FrequencyScore(entries[ids[i]]) = 0

\* C14: for a single-character headword with several entries, entries of
\* equal score keep their insertion order; when every score is 0 the whole
\* list is returned in insertion order and every entry is labelled "see all
\* meanings".
C14_TiesKeepInsertionOrder ==
    \A c \in Callers :
        (pc[c] = "returned" /\ Len(query[c]) = 1 /\ Len(Listed(query[c])) > 1) =>
            /\ StablyRanked(result[c].entries, Listed(query[c]))
            /\ AllScoresZero(Listed(query[c])) =>
                  \A k \in 1..Len(Listed(query[c])) :
                      /\ Stripped(result[c].entries[k], entries[Listed(query[c])[k]])
                            = entries[Listed(query[c])[k]]
                      /\ result[c].entries[k].confidence = "see all meanings"

\* Three entries were looked up: the two of score 0 came back in their
\* insertion order, behind the entry that was inserted between them.
C14_Witness ==
    \E c \in Callers :
        /\ pc[c] = "returned" /\ query[c] = <<25171>>
        /\ Len(Listed(query[c])) = 3
        /\ FrequencyScore(entries[Listed(query[c])[1]]) = 0
        /\ FrequencyScore(entries[Listed(query[c])[2]]) = 1
        /\ FrequencyScore(entries[Listed(query[c])[3]]) = 0
        /\ entries[Listed(query[c])[1]] # entries[Listed(query[c])[3]]
        /\ Stripped(result[c].entries[1], entries[Listed(query[c])[2]])
              = entries[Listed(query[c])[2]]
        /\ Stripped(result[c].entries[2], entries[Listed(query[c])[1]])
              = entries[Listed(query[c])[1]]
        /\ Stripped(result[c].entries[3], entries[Listed(query[c])[3]])
              = entries[Listed(query[c])[3]]
        /\ result[c].entries[2].confidence = "less common"

\* C15: for a headword of more than one character with several entries, the
\* lookup returns the entries in the order the index lists them, whatever
\* their frequency scores, each labelled "see all meanings".
C15_MultiCharacterKeepsOrder ==
    \A c \in Callers :
        (pc[c] = "returned" /\ Len(query[c]) > 1 /\ Len(Listed(query[c])) > 1) =>
            /\ Len(result[c].entries) = Len(Listed(query[c]))
            /\ \A k \in 1..Len(Listed(query[c])) :
                  /\ Stripped(result[c].entries[k], entries[Listed(query[c])[k]])
                        = entries[Listed(query[c])[k]]
                  /\ result[c].entries[k].confidence = "see all meanings"
                  /\ result[c].entries[k].sort_score = 0

\* A two-character headword whose second entry has the higher score was
\* looked up and the entries came back as listed.
C15_Witness ==
    \E c \in Callers :
        /\ pc[c] = "returned" /\ Len(query[c]) = 2
        /\ Len(Listed(query[c])) = 2
        /\ FrequencyScore(entries[Listed(query[c])[1]]) = 0
        /\ FrequencyScore(entries[Listed(query[c])[2]]) = 1
        /\ result[c].entries[1].pinyin = entries[Listed(query[c])[1]].pinyin
        /\ result[c].entries[2].pinyin = entries[Listed(query[c])[2]].pinyin
        /\ result[c].entries[1].pinyin # result[c].entries[2].pinyin
        /\ result[c].entries[2].confidence = "see all meanings"

\* C16: a headword with exactly one entry gets that entry back labelled
\* "only meaning", whatever the length of the headword and whatever the
\* frequency score of the entry.
C16_LoneEntryOnlyMeaning ==
    \A c \in Callers :
        (pc[c] = "returned" /\ Len(Listed(query[c])) = 1) =>
            /\ Len(result[c].entries) = 1
            /\ result[c].count = 1
            /\ Stripped(result[c].entries[1], entries[Listed(query[c])[1]])
                  = entries[Listed(query[c])[1]]
            /\ result[c].entries[1].confidence = "only meaning"

\* A one-character headword whose only entry has the score 1.
C16_Witness ==
    \E c \in Callers :
        /\ pc[c] = "returned" /\ Len(query[c]) = 1
        /\ Len(Listed(query[c])) = 1
        /\ FrequencyScore(entries[Listed(query[c])[1]]) = 1
        /\ result[c].entries[1].sort_score = 1
        /\ result[c].entries[1].confidence = "only meaning"

\* The number of lines of the lexicon that are compounds beginning with the
\* character of the one-character headword word and carrying pinyin as their
\* romanization: the final compound count for (word, pinyin).
FinalCompoundCount(word, pinyin) ==
    Cardinality({i \in 1..Len(Parsed) :
                    /\ Len(Parsed[i].simplified) > 1
                    /\ SubSeq(Parsed[i].simplified, 1, 1) = word
                    /\ Parsed[i].pinyin = pinyin})

\* The number of entries of the lexicon with the given simplified headword.
EntriesOf(word) ==
    Cardinality({i \in 1..Len(Parsed) : Parsed[i].simplified = word})

\* C17: no entry has a frequency score while lines are still being indexed;
\* once the build is over every line is indexed, each entry of a
\* one-character headword with several entries has the final compound count
\* of (headword, its romanization) as its score (0 when there is none), and
\* every other entry, the multi-character ones included, has score 0.
C17_TwoPhaseBuild ==
    /\ phase = "loading" =>
          \A i \in DOMAIN entries : "frequency_score" \notin DOMAIN entries[i]
    /\ phase = "ready" =>
          /\ Len(entries) = Len(Parsed)
          /\ \A i \in DOMAIN entries :
                /\ Stripped(entries[i], Parsed[i]) = Parsed[i]
                /\ FrequencyScore(entries[i]) =
                      IF Len(entries[i].simplified) = 1
                            /\ EntriesOf(entries[i].simplified) > 1
                      THEN FinalCompoundCount(entries[i].simplified,
                                              entries[i].pinyin)
                      ELSE 0

\* The build is over: one of two entries of a character has the score 1 from
\* a compound that was indexed after it, the other the score 0, and the
\* compound has none.
C17_Witness ==
    /\ phase = "ready"
    /\ \E i, j, k \in DOMAIN entries :
          /\ i < k /\ j < k
          /\ entries[i].simplified = entries[j].simplified
          /\ Len(entries[i].simplified) = 1
          /\ "frequency_score" \in DOMAIN entries[i]
          /\ "frequency_score" \in DOMAIN entries[j]
          /\ FrequencyScore(entries[i]) = 1
          /\ FrequencyScore(entries[j]) = 0
          /\ Len(entries[k].simplified) > 1
          /\ "frequency_score" \notin DOMAIN entries[k]

\* The places <<key, position>> of an index where the entry id is listed.
Places(index, id) ==
    {kp \in UNION {{<<k, p>> : p \in DOMAIN index[k]} : k \in DOMAIN index} :
        index[kp[1]][kp[2]] = id}

\* The entries of every list of an index are in the order of the file.
SourceOrder(index) ==
    \A k \in DOMAIN index :
        \A p, q \in DOMAIN index[k] : p < q => index[k][p] < index[k][q]

\* C18: after any number of lines have been indexed, the i-th entry is the
\* i-th line that parses; it is listed exactly once in the simplified index, under its
\* simplified headword; it is listed in the traditional index exactly when
\* its two forms differ, then once and under its traditional headword; the
\* lists are in source order and list nothing else.
C18_IndexShape ==
    /\ Len(entries) = Len(ParsedSoFar)
    /\ \A id \in DOMAIN entries :
          /\ Stripped(entries[id], Parsed[id]) = Parsed[id]
          /\ Cardinality(Places(simplified_index, id)) = 1
          /\ \A kp \in Places(simplified_index, id) :
                kp[1] = entries[id].simplified
          /\ Cardinality(Places(traditional_index, id)) =
                IF entries[id].traditional # entries[id].simplified
                THEN 1 ELSE 0
          /\ \A kp \in Places(traditional_index, id) :
                kp[1] = entries[id].traditional
    /\ SourceOrder(simplified_index)
    /\ SourceOrder(traditional_index)
    /\ \A k \in DOMAIN simplified_index :
          \A p \in DOMAIN simplified_index[k] :
              simplified_index[k][p] \in DOMAIN entries
    /\ \A k \in DOMAIN traditional_index :
          \A p \in DOMAIN traditional_index[k] :
              traditional_index[k][p] \in DOMAIN entries

\* Three lines are indexed: two share a simplified headword, one of them
\* has a different traditional form and is listed under it, the other has
\* none and is in no traditional list.
C18_Witness ==
    /\ line_no = 3
    /\ \E i, j \in DOMAIN entries :
          /\ i < j
          /\ entries[i].simplified = entries[j].simplified
          /\ entries[i].traditional = entries[i].simplified
          /\ entries[j].traditional # entries[j].simplified
          /\ simplified_index[entries[i].simplified] = <<i, j>>
          /\ Places(traditional_index, i) = {}
          /\ Places(traditional_index, j) = {<<entries[j].traditional, 1>>}

\* What the exact lookup of word gives when a headword of neither index
\* yields absent: the simplified list of a simplified key, whether or not
\* the word is a traditional key too; the traditional list of a word that
\* is a traditional key only.
ExactLookupGives(word, absent) ==
    /\ word \in DOMAIN simplified_index =>
          _exact_lookup(word) = simplified_index[word]
    /\ (word \notin DOMAIN simplified_index
            /\ word \in DOMAIN traditional_index) =>
          _exact_lookup(word) = traditional_index[word]
    /\ (word \notin DOMAIN simplified_index
            /\ word \notin DOMAIN traditional_index) =>
          _exact_lookup(word) = absent

\* A lookup answered from the index returned the entries the exact lookup
\* gives, and no other.
ReturnedTheListed(c) ==
    (pc[c] = "returned" /\ result[c].found /\ Listed(query[c]) # <<>>) =>
        /\ Len(result[c].entries) = Len(Listed(query[c]))
        /\ \A i \in DOMAIN result[c].entries :
              \E p \in DOMAIN Listed(query[c]) :
                  Stripped(result[c].entries[i], entries[Listed(query[c])[p]])
                      = entries[Listed(query[c])[p]]

\* C19 as stated: the exact lookup consults the simplified index first and
\* the traditional index only for a word that is no simplified key, and
\* gives an empty sequence for a headword of neither index.
C19_AbsentIsEmpty ==
    \A word \in Queries : ExactLookupGives(word, <<>>)

\* C19: the exact lookup consults the simplified index first and the
\* traditional index only for a word that is no simplified key (a headword
\* of both yields the simplified list alone), and gives None for a headword
\* of neither index; a lookup answered from the index returns the entries
\* of that list.
C19_AbsentIsNone ==
    /\ \A word \in Queries : ExactLookupGives(word, None)
    /\ \A c \in Callers : ReturnedTheListed(c)

\* A lookup of a headword that is a key of both indexes, with different
\* lists, has returned the one entry of the simplified list; another query
\* is a headword of neither index.
C19_Witness ==
    \E c \in Callers :
        /\ pc[c] = "returned"
        /\ query[c] \in DOMAIN simplified_index
        /\ query[c] \in DOMAIN traditional_index
        /\ simplified_index[query[c]] # traditional_index[query[c]]
        /\ result[c].count = Len(simplified_index[query[c]])
        /\ result[c].entries[1].simplified = query[c]
        /\ \E word \in Queries :
              /\ word \notin DOMAIN simplified_index
              /\ word \notin DOMAIN traditional_index
              /\ _exact_lookup(word) = None

\* A line is a comment (it begins with "#" or "%"); it is malformed (no
\* comment, not blank, and short of a bracket or of a second token before
\* the "["); it is well-formed.
CommentLine(line) == line.lead \in {"#", "%"}

Malformed(line) ==
    /\ ~CommentLine(line)
    /\ ~Blank(line)
    /\ ~line.open \/ ~line.close \/ Len(line.parts) < 2

WellFormed(line) == ~CommentLine(line) /\ ~Blank(line) /\ ~Malformed(line)

\* The well-formed lines among the first n lines of the lexicon.
WellFormedUpTo(n) == {i \in 1..n : WellFormed(lexicon[i])}

\* The file holds only comment lines and one line with no closing bracket.
OnlyCommentsAndOneUnclosed ==
    /\ \E i \in DOMAIN lexicon :
          /\ Malformed(lexicon[i])
          /\ lexicon[i].open /\ ~lexicon[i].close
          /\ \A j \in DOMAIN lexicon \ {i} : CommentLine(lexicon[j])

\* C20: the construction never fails on a line; after any number of lines
\* the entries are those of the well-formed lines consumed, in file order,
\* each under its simplified headword, and no comment, blank or malformed
\* line has contributed one; a file of only comment lines and one line with
\* no closing bracket ends with an empty index.
C20_BadLinesContributeNothing ==
    /\ phase # "failed"
    /\ Len(entries) = Cardinality(WellFormedUpTo(line_no))
    /\ \A i \in WellFormedUpTo(line_no) :
          LET id == Cardinality(WellFormedUpTo(i))
          IN  /\ entries[id].traditional = lexicon[i].parts[1]
              /\ entries[id].simplified = lexicon[i].parts[2]
              /\ \E p \in DOMAIN simplified_index[lexicon[i].parts[2]] :
                    simplified_index[lexicon[i].parts[2]][p] = id
    /\ (phase = "ready" /\ OnlyCommentsAndOneUnclosed) =>
          /\ entries = <<>>
          /\ simplified_index = <<>>
          /\ traditional_index = <<>>
          /\ compound_count = <<>>

\* The construction is over for a file of a comment, then a line with no
\* closing bracket, then a well-formed line: the index holds the one entry
\* of the last line.
C20_Witness ==
    /\ phase = "ready"
    /\ Len(lexicon) = 3
    /\ CommentLine(lexicon[1])
    /\ Malformed(lexicon[2]) /\ lexicon[2].open /\ ~lexicon[2].close
    /\ WellFormed(lexicon[3])
    /\ Len(entries) = 1
    /\ entries[1].simplified = lexicon[3].parts[2]
    /\ simplified_index[lexicon[3].parts[2]] = <<1>>

\* The fragments of a line that are glosses: stripped, not empty and not
\* starting with "CL:", in source order.
Glosses(fragments) ==
    SelectSeq([i \in DOMAIN fragments |-> Strip(fragments[i])],
              LAMBDA meaning : meaning # "" /\ ~StartsWithCL(meaning))

\* A sequence without the later copies of its elements.
RECURSIVE Distinct(_)
Distinct(seq) ==
    IF seq = <<>> THEN <<>>
    ELSE LET front == Distinct(SubSeq(seq, 1, Len(seq) - 1))
             last  == seq[Len(seq)]
         IN  IF \E i \in DOMAIN front : front[i] = last
             THEN front ELSE Append(front, last)

\* The classifier fragments of a line.
ClassifierFragments(fragments) ==
    SelectSeq([i \in DOMAIN fragments |-> Strip(fragments[i])], StartsWithCL)

\* The entry indexed for the i-th line of the lexicon, a well-formed one.
EntryOfLine(i) == entries[Cardinality(WellFormedUpTo(i))]

\* The definitions of every indexed entry are the glosses of its line, in
\* source order, copies included.
DefinitionsAreGlosses ==
    \A i \in WellFormedUpTo(line_no) :
        EntryOfLine(i).definitions = Glosses(lexicon[i].definitions)

\* C21: the definitions of every indexed entry are the non-empty fragments
\* of its line that do not start with "CL:", in source order and each gloss
\* once; no definition starts with "CL:", and the groups of every "CL:"
\* fragment of the line are in the classifier of the entry.
C21_DefinitionsAreDistinctGlosses ==
    \A i \in WellFormedUpTo(line_no) :
        /\ EntryOfLine(i).definitions = Distinct(Glosses(lexicon[i].definitions))
        /\ \A d \in DOMAIN EntryOfLine(i).definitions :
              ~StartsWithCL(EntryOfLine(i).definitions[d])
        /\ \A f \in DOMAIN ClassifierFragments(lexicon[i].definitions) :
              LET groups ==
                    ClassifierGroups(ClassifierFragments(lexicon[i].definitions)[f])
              IN  \A g \in DOMAIN groups :
                      \E k \in DOMAIN EntryOfLine(i).classifier :
                          EntryOfLine(i).classifier[k] = groups[g]

\* A line with the same gloss twice is indexed, and the entry has it twice.
C21_Witness ==
    /\ phase = "ready"
    /\ \E i \in WellFormedUpTo(line_no) :
          /\ lexicon[i].definitions = <<"to hit", "to beat", "to hit">>
          /\ EntryOfLine(i).definitions = <<"to hit", "to beat", "to hit">>

\* What the exact lookup of word gives on an index ix: the entries of its
\* list, scores included, or None.
ExactResult(ix, word) ==
    LET ids == IF word \in DOMAIN ix.simplified_index
               THEN ix.simplified_index[word]
               ELSE IF word \in DOMAIN ix.traditional_index
               THEN ix.traditional_index[word]
               ELSE None
    IN  IF ids = None THEN <<>>
        ELSE [i \in DOMAIN ids |-> ix.entries[ids[i]]]

\* The headwords of the index, and the queries of the model.
Headwords ==
    DOMAIN simplified_index \cup DOMAIN traditional_index \cup Queries

Punctuation == {44, 46, 40, 59, 33, 63, 12290, 65281}

\* The text before the first character of a set, the whole text when it
\* holds none.
BeforeAnyOf(text, chars) ==
    LET at == {i \in DOMAIN text : text[i] \in chars}
    IN  IF at = {} THEN text
        ELSE SubSeq(text, 1, (CHOOSE i \in at : \A j \in at : i <= j) - 1)

\* The four steps in the words of the claim.
FourSteps(decoded) ==
    LET step1  == BeforeAnyOf(decoded, {40})
        step2  == BeforeAnyOf(step1, {46, 33, 59})
        before == StripChars(BeforeAnyOf(step2, {44}), Whitespace)
        step3  == IF (\E i \in DOMAIN step2 : step2[i] = 44)
                        /\ WordCount(before) >= 2
                  THEN before ELSE step2
    IN  StripChars(step3, Punctuation \cup Whitespace)

\* The text holds none of ( . ! ; and has none of the given characters at
\* either end.
Tidy(text, ends) ==
    /\ \A i \in DOMAIN text : text[i] \notin {40, 46, 33, 59}
    /\ text # <<>> => text[1] \notin ends /\ text[Len(text)] \notin ends

\* A call has returned a generated entry.
ReturnedGenerated(c) == pc[c] = "returned" /\ calls[c] = 1

\* The returned translation holds none of ( . ! ; and neither starts nor
\* ends with a character of the strip of line 101.
CleanedOfStripSet ==
    \A c \in Callers : ReturnedGenerated(c) => Tidy(translation[c], StripSet)

\* C23: the cleanup a call is about to run gives, for every decoded text,
\* the result of the four steps in their order (cut at "(", cut at the
\* earliest of . ! ;, keep the text before the first comma when it has two
\* words, strip punctuation and whitespace at both ends); the translation a
\* call returned holds none of ( . ! ; and neither starts nor ends with
\* punctuation or whitespace.
C23_CleanupPipeline ==
    /\ \A c \in Callers :
          pc[c] = "L71" =>
              \A decoded \in Texts : Cleanup(decoded) = FourSteps(decoded)
    /\ \A c \in Callers :
          ReturnedGenerated(c) =>
              Tidy(translation[c], Punctuation \cup Whitespace)

\* A call has returned a translation that ends with "?".
C23_Witness ==
    \E c \in Callers :
        /\ ReturnedGenerated(c)
        /\ translation[c] # <<>>
        /\ translation[c][Len(translation[c])] = 63
        /\ result[c].entries[1].definitions = <<translation[c]>>

\* C24: while the translation of one call is in flight on its worker
\* thread, the event loop can start another request, and a lookup of an
\* indexed headword started then completes at once, leaving the translating
\* caller where it is; that caller stays suspended until its worker has
\* returned a result or an error to it.
C24_TranslationOffEventLoop ==
    /\ []((\E c \in Callers : pc[c] \in InGateway)
              /\ (\E d \in Callers : pc[d] = "idle")
            => ENABLED (\E d \in Callers :
                          Lookup(d, <<25171>>) /\ pc'[d] = "returned"))
    /\ [][\A c, d \in Callers :
             (pc[c] \in InGateway /\ pc[d] = "idle" /\ pc'[d] = "returned") =>
                 /\ result'[d] # NoResult
                 /\ pc'[c] = pc[c]
                 /\ result'[c] = result[c]]_vars
    /\ [][\A c \in Callers :
             (pc[c] \in InGateway /\ pc'[c] \notin InGateway) =>
                 /\ pc'[c] \in {"returned", "raised"}
                 /\ result'[c] # NoResult]_vars

\* One call is at the inference on its worker thread, and another call,
\* made after it, has been answered from the index.
C24_Witness ==
    \E c, d \in Callers :
        /\ pc[c] = "L71" /\ calls[c] = 1
        /\ pc[d] = "returned" /\ calls[d] = 0
        /\ result[d].found = TRUE
        /\ query[d] = <<25171>>

\* The caller holds the error of a missing lexicon file.
FileNotFound(c) ==
    pc[c] = "raised" /\ result[c] = [exception |-> "FileNotFoundError"]

\* C25: a request that finds no lexicon file ends with an error and leaves
\* no instance behind (the next request starts over, the index is empty and
\* unused); a request is answered only by a built instance, and a built
\* instance holds the entries of the file, never an empty index in place of
\* a file.
C25_MissingFileAborts ==
    /\ [][\A c \in Callers :
             (~FileNotFound(c) /\ FileNotFound(c)') =>
                 /\ phase = "none" /\ phase' = "none"
                 /\ entries' = <<>> /\ simplified_index' = <<>>
                 /\ traditional_index' = <<>>]_vars
    /\ [](phase = "none" =>
             /\ entries = <<>>
             /\ \A c \in Callers : pc[c] # "returned")
    /\ [](\A c \in Callers : pc[c] = "returned" => phase = "ready")
    /\ [](phase = "ready" => Len(entries) = Len(Parsed) /\ Len(Parsed) > 0)

\* A request found no file and holds the error, no instance exists and the
\* other caller has not been answered.
C25_Witness ==
    \E c, d \in Callers :
        /\ c # d
        /\ FileNotFound(c)
        /\ phase = "none"
        /\ pc[d] = "idle"
        /\ simplified_index = <<>>

\* A call of lookup is made in this step by caller c.
LookupMade(c) == pc[c] = "idle" /\ pc'[c] \in {"returned", "L28"}

\* C26: a build starts only when there is no instance and none is being
\* built, and a built instance is never built again or changed; every
\* lookup is made on an index that holds every entry of the file with its
\* final frequency score, whichever of the concurrent first requests had it
\* built.
C26_NoHalfBuiltIndex ==
    /\ [][(phase # "loading" /\ phase' = "loading") => phase = "none"]_vars
    /\ [][phase = "ready" =>
             /\ phase' = "ready"
             /\ UNCHANGED <<simplified_index, traditional_index,
                            compound_count>>]_vars
    /\ [][\A c \in Callers :
             LookupMade(c) =>
                 /\ phase = "ready"
                 /\ line_no = Len(lexicon)
                 /\ Index = Construct(lexicon)]_vars
    /\ [](\A c \in Callers :
             (pc[c] = "returned" /\ result[c].found) =>
                 /\ Index = Construct(lexicon)
                 /\ result[c].count = Len(ExactResult(Construct(lexicon), query[c])))

\* Both callers made a first request: one had the instance built, the other
\* found no file before; each has since been answered from the whole index.
C26_Witness ==
    \E c, d \in Callers :
        /\ c # d
        /\ phase = "ready"
        /\ pc[c] = "returned" /\ result[c].found /\ result[c].count > 1
        /\ pc[d] = "returned" /\ result[d].found
        /\ \E id \in DOMAIN entries : FrequencyScore(entries[id]) > 0

\* The endpoint has answered the request of caller c, which held a word
\* that is not empty.
Answered(c) ==
    pc[c] = "responded" /\ StripChars(query[c], Whitespace) # <<>>

\* C27: a request with a non-empty word is answered 200 with success and
\* the entry when the word is found in the index or an entry is generated
\* for it, 404 without success when the service finds none (a word with no
\* Chinese character), and 500 only when the lookup itself failed, which
\* only a lookup that goes to the translator can.
C27_EndpointStatus ==
    \A c \in Callers :
        Answered(c) =>
            LET word == StripChars(query[c], Whitespace)
            IN  /\ result[c].status \in {200, 404, 500}
                /\ result[c].status = 200 =>
                      /\ result[c].success
                      /\ result[c].entry.found
                      /\ result[c].entry.query = word
                /\ result[c].status = 404 => ~result[c].success
                /\ (_is_chinese(word) /\ Truthy(_exact_lookup(word))) =>
                      result[c].status = 200
                /\ ~_is_chinese(word) => result[c].status = 404
                /\ result[c].status = 500 =>
                      _is_chinese(word) /\ ~Truthy(_exact_lookup(word))

\* A request for U+6253, a headword of the index, has been answered 500.
C27_Witness ==
    \E c \in Callers :
        /\ Answered(c)
        /\ query[c] = <<25171>>
        /\ Truthy(_exact_lookup(<<25171>>))
        /\ result[c].status = 500
        /\ ~result[c].success

\* The step in which the load of caller c fails: the constructor of line 42
\* or of line 43 raises and the error reaches the caller.
LoadFails(c) == pc[c] \in {"L42", "L43"} /\ LoadFailed(c)'

\* C28: a load of the backend that fails, at the construction of the
\* translator or of the tokenizer, leaves the gateway unloaded (translator
\* and tokenizer absent, loading flag cleared), and whenever no load and no
\* eviction is running the translator and the tokenizer are both present or
\* both absent.
C28_FailedLoadLeavesUnloaded ==
    /\ [][\A c \in Callers :
             LoadFails(c) =>
                 /\ translator' = "None"
                 /\ tokenizer' = "None"
                 /\ ~loading_lock']_vars
    /\ []((LoadingCallers = {} /\ unload_pc = "idle") =>
             (translator = "None" <=> tokenizer = "None"))

\* The only call made so far failed when it built the tokenizer: it holds
\* the error, no load and no eviction is running, the flag is cleared, and
\* the translator is set with no tokenizer.
C28_Witness ==
    \E c \in Callers :
        /\ LoadFailed(c)
        /\ loads[c] = 1
        /\ \A d \in Callers \ {c} : pc[d] = "idle" /\ calls[d] = 0
        /\ LoadingCallers = {}
        /\ unload_pc = "idle"
        /\ ~loading_lock
        /\ translator = "Translator"
        /\ tokenizer = "None"

\* The chunks of a list, as a set.
ChunksOf(list) == { list[i] : i \in 1..Len(list) }

\* Each end_speak whose handler has ended got exactly one transcript_ready,
\* on each of the five paths, and none before its handler ended.
OneTranscriptReady ==
    \A h \in Finalizers :
        /\ speak[h].pc = "done" => transcript_ready[h] = 1
        /\ speak[h].pc # "done" => transcript_ready[h] = 0

\* The step that ends the handler of an end_speak leaves the buffer of its
\* session empty.
EndsWithEmptyBuffer ==
    [][\A h \in Finalizers :
          (speak[h].pc # "done" /\ speak'[h].pc = "done") =>
              Get(session_chunks', speak'[h].session_id, <<>>) = <<>>]_vars

\* The audio a handler posts is audio of the utterance its end_speak ended.
OwnAudioOnly ==
    \A h \in Finalizers :
        ChunksOf(speak[h].combined_webm) \subseteq ChunksOf(speak[h].spoken)

\* C29: every end_speak gets exactly one transcript_ready, whichever way
\* its handler ends (no chunks, transcription, error status, timeout, other
\* exception); when the handler ends the chunk buffer of the session is
\* empty; and the audio transcribed for an utterance holds no audio of the
\* utterance before it.
C29_OneTranscriptAndNoCarryOver ==
    /\ []OneTranscriptReady
    /\ EndsWithEmptyBuffer
    /\ []OwnAudioOnly

\* A second end_speak arrived while the handler of the first was waiting
\* for the recognition service: with no chunk sent in between, its handler
\* posted the audio of the first utterance again, and each of the two got
\* its one transcript_ready.
C29_Witness ==
    /\ speak[1].pc = "done" /\ speak[2].pc = "done"
    /\ speak[1].path = "200" /\ speak[2].path = "200"
    /\ speak[1].combined_webm = <<1>> /\ speak[1].spoken = <<1>>
    /\ speak[2].combined_webm = <<1>> /\ speak[2].spoken = <<>>
    /\ transcript_ready[1] = 1 /\ transcript_ready[2] = 1
    /\ Get(session_chunks, "default", <<>>) = <<>>

\* The numbers of the user turns of a list.
UserTurns(list) ==
    { list[i].turn : i \in { j \in 1..Len(list) : list[j].role = "user" } }

\* The number of feedback analyses the user turn n has been passed to.
Passes(n) ==
    Cardinality({ i \in 1..Len(analysed) : n \in UserTurns(analysed[i]) })

\* The user turn n is in the transcript of its session.
Kept(n) == \E s \in DOMAIN transcripts : n \in UserTurns(transcripts[s])

=============================================================================
